---- MODULE Spec2Model ----
(***************************************************************************)
(* A model of the WARP downlink client of swimai: downlink views, the      *)
(* downlink models they share through a manager, the connection of one     *)
(* host, and the event loop on which every scheduled task runs.            *)
(*                                                                         *)
(* The loop is asyncio's: a FIFO queue of ready handles (ready); a task    *)
(* that awaits an unset asyncio.Event, or the transport's connect, is      *)
(* parked (blocked) and is appended to the ready queue, in the order in    *)
(* which it parked, when the event is set.  Caller threads run the         *)
(* synchronous methods of the views and submit tasks with schedule_task.   *)
(*                                                                         *)
(* The specifications share the actions: Spec (two built views of one      *)
(* lane, of any kind, with their users, the peer and the loop), SpecValue  *)
(* (value downlinks alone, in longer runs), SpecConfig (the views'         *)
(* configuration), SpecCallbacks (the runtime's side of user callbacks),   *)
(* SpecCommands (outbound commands), SpecClient (start, stop, scoped form  *)
(* and exception policy), SpecLoopCalls (calls of the view API made by     *)
(* coroutine callbacks), SpecFrames (the peer's envelopes, of every tag in *)
(* any order), and SpecParse and SpecAttr (the Recon parser and its        *)
(* attribute parser on short strings).                                     *)
(***************************************************************************)
EXTENDS Integers, Sequences, FiniteSets, TLC

VARIABLES
    kind,        \* the downlink kind of the views of this run: value, map or event
    view,        \* view[v]: the fields of DownlinkView v
    model,       \* model[m]: the fields of DownlinkModel m
    manager,     \* manager[m]: the DownlinkManager that owns model m
    nModels,     \* number of models created so far
    mgrOf,       \* the manager pool of the connection: route -> manager, 0 for none
    conn,        \* the connection of the host: status and downlink count
    ready,       \* the loop's FIFO queue of ready task handles
    blocked,     \* the tasks parked on an event, in parking order
    sent,        \* the frames handed to the connection, in order
    dispatched,  \* the user callbacks that the latest step submitted to the
                 \* runtime with schedule_task, in submission order
    lastCall,    \* the outcome of the call of the view API that returned in the
                 \* latest step, NoCall when none did
    classDict,   \* classDict[v]: the class dictionary created by view v (shared by
                 \* reference with the managers that view initialised)
    budget,      \* how many opens, calls, inbound envelopes and configuration
                 \* calls have happened, and the cap on the first three together
    runtime,     \* the client runtime's side of the user callbacks: the worker
                 \* pool's queue and workers, the callbacks invoked so far and
                 \* the exceptions handed to the exception policy
    client,      \* the SwimClient: its configuration, its loop and loop thread,
                 \* what it has printed, and where the thread that uses it is
    parsed       \* the Recon string given to the parser and the outcome of
                 \* parse_block_string

vars == <<kind, view, model, manager, nModels, mgrOf, conn, ready, blocked,
          sent, dispatched, lastCall, classDict, budget, runtime, client, parsed>>

-----------------------------------------------------------------------------
(* Bounds of the model *)

MaxOpens == 2        \* open() calls that take effect; also the number of model ids
MaxInbound == 3      \* inbound envelopes the peer sends
MaxCalls == 1        \* get(wait_sync=True) / set / put / remove calls that schedule a task
MaxConfig == 2       \* configuration calls on the views (builder specification)
MaxActs == 4         \* opens, scheduling calls and inbound envelopes together
                     \* (one more when the run has value downlinks only)

Views == {1, 2}
Callers == {1}      \* the views whose get / set / put / remove are called; the
                    \* other view is a further subscriber of the route
ModelIds == 1 .. MaxOpens
NoModel == 0

-----------------------------------------------------------------------------
(* Values.  A Recon value is [t |-> its type, s |-> its text]. *)

Absent == [t |-> "Absent", s |-> ""]
Num42 == [t |-> "Num", s |-> "42"]
Num7 == [t |-> "Num", s |-> "7"]
TextK == [t |-> "Text", s |-> "k"]
TextV == [t |-> "Text", s |-> "v"]
TextW == [t |-> "Text", s |-> "w"]
RecP == [t |-> "Record", s |-> "P"]       \* a record whose head attribute is @P
ObjP == [t |-> "Object", s |-> "P"]       \* an instance of the registered class P
DecodeError == [t |-> "Error", s |-> "UnknownType"]

Classes == {"P"}
ValueBodies == {Absent, Num42, RecP}
MapKeys == {TextK, Num42}
MapValues == {TextV, TextW}

NoUri == "None"
HostInputs == {"ws://h", "http://h", "ftp://h"}
NodeInputs == {"a", NoUri}
LaneInputs == {"b", "x"}
Routes == {<<n, l>> : n \in NodeInputs \cup {NoUri}, l \in LaneInputs \cup {NoUri}}

-----------------------------------------------------------------------------
(* The codec and URI helpers the downlinks call *)

\* URI.normalise_warp_scheme: http -> ws, https -> wss, other schemes rejected
NormaliseWarpScheme(h) ==
    CASE h = "ws://h" -> "ws://h"
      [] h = "http://h" -> "ws://h"
      [] OTHER -> "Rejected"

\* RecordConverter.record_to_object: a record whose head names a registered
\* class becomes an instance of it; an unknown name fails when strict and
\* stays a plain record otherwise; primitives map to themselves
RecordToObject(w, classes, strict) ==
    IF w.t = "Record"
    THEN IF w.s \in classes THEN [t |-> "Object", s |-> w.s]
         ELSE IF strict THEN DecodeError ELSE w
    ELSE w

\* RecordConverter.object_to_record: the inverse on objects
ObjectToRecord(x) == IF x.t = "Object" THEN [t |-> "Record", s |-> x.s] ELSE x

\* Recon.to_string: the canonical Recon text of a value, as a Python string
\* (a sequence of characters): numbers and identifiers bare, records @name
ReconToString(w) ==
    CASE w = Num42 -> <<"4", "2">>
      [] w = Num7 -> <<"7">>
      [] w = TextK -> <<"k">>
      [] w = TextV -> <<"v">>
      [] w = TextW -> <<"w">>
      [] w = RecP -> <<"@", "P">>
      [] OTHER -> <<>>

-----------------------------------------------------------------------------
(* Envelopes, frames and tasks *)

NoBody == [tag |-> "", key |-> Absent, val |-> Absent]
ValueBody(x) == [tag |-> "", key |-> Absent, val |-> x]
UpdateBody(k, x) == [tag |-> "update", key |-> k, val |-> x]
RemoveBody(k) == [tag |-> "remove", key |-> k, val |-> Absent]
ReasonBody(name) == [tag |-> name, key |-> Absent, val |-> Absent]

Envelope(tag, node, lane, body) ==
    [tag |-> tag, node |-> node, lane |-> lane, body |-> body]
NoEnv == Envelope("", "", "", NoBody)

\* a frame handed to the connection; via is the model it was sent through
Frame(env, m) ==
    [tag |-> env.tag, node |-> env.node, lane |-> env.lane, body |-> env.body, via |-> m]

\* None as the key argument of the map's get
NoKey == <<>>

\* a task of the loop.  pc is spawn while the handle that run_coroutine_threadsafe
\* queued has not run (it creates the task, whose first step then joins the
\* end of the ready queue), start before the first step, and then the await
\* at which the task is parked.  frame is, for the task of a callback, the
\* number of the inbound envelope that caused it (0 for a replay)
Task(k, v, op, key, args, env) ==
    [kind |-> k, view |-> v, op |-> op, key |-> key, args |-> args, pc |-> "spawn",
     model |-> NoModel, env |-> env, frame |-> 0]

\* a user callback scheduled for view v with its arguments
Callback(v, op, args) == [view |-> v, op |-> op, args |-> args]

\* the outcome of the call that returned in the latest step: status is value (val is the result), entry (coll
\* holds the one (key, value) tuple returned), values (coll is the collection
\* returned), ok (nothing returned) or the error raised
Call(op, v, status, val, coll) ==
    [op |-> op, view |-> v, status |-> status, val |-> val, coll |-> coll]

NoCall == Call("none", 0, "none", Absent, <<>>)

Route(v) == <<view[v].node_uri, view[v].lane_uri>>

\* the events the peer may send on a downlink of kind k
EventBodies(k) ==
    IF k = "map"
    THEN {UpdateBody(key, x) : key \in MapKeys, x \in MapValues}
           \cup {RemoveBody(key) : key \in MapKeys}
    ELSE {ValueBody(x) : x \in ValueBodies}

InboundBodies(k, tag) ==
    CASE tag = "event" -> EventBodies(k)
      [] tag = "unlinked" -> {ReasonBody("laneNotFound"), NoBody}
      [] OTHER -> {NoBody}

InboundTags == {"linked", "synced", "event", "unlinked"}

\* tags of envelopes that the peer may send and receive_message has no branch for
OtherTags == {"authed", "deauthed"}

-----------------------------------------------------------------------------
(* The Recon parser: ReconStructureParser.parse_block_string and the       *)
(* parsers it runs, on a string given as the sequence of its characters    *)

\* Python's values in the parser: None, a str, and the structures Text, Bool,
\* Attr and Record
None == [type |-> "None"]
Str(s) == [type |-> "str", value |-> s]
Bool(b) == [type |-> "Bool", value |-> b]
TextFrom(x) == [type |-> "Text", value |-> x]
AttrOf(key, x) == [type |-> "Attr", key |-> key, value |-> x]
RecordOf(item) == [type |-> "Record", items |-> <<item>>]
Extant == [type |-> "Extant"]

\* ValueBuilder: add(item) and bind() of a builder that holds one item
Bind(item) == item

\* ReconUtils.is_ident_start_char and is_ident_char, on the characters of the
\* inputs; is_space is the whitespace that str.strip removes
Letters == {"a", "e", "f", "l", "r", "s", "t", "u"}
IsIdentStartChar(c) == c \in Letters \cup {"_"}
IsIdentChar(c) == c \in Letters \cup {"_", "-", "1"}
IsSpace(c) == c = " "

\* InputMessage(message): the string and the index of its head
InputMessage(s) == [message |-> s, index |-> 0]

\* str.strip(): the string without its leading and trailing whitespace
RECURSIVE LStrip(_)
LStrip(s) == IF s # <<>> /\ IsSpace(s[1]) THEN LStrip(Tail(s)) ELSE s
RECURSIVE RStrip(_)
RStrip(s) ==
    IF s # <<>> /\ IsSpace(s[Len(s)]) THEN RStrip(SubSeq(s, 1, Len(s) - 1)) ELSE s

\* InputMessage.strip
Strip(m) == [m EXCEPT !.message = RStrip(LStrip(@))]

\* InputMessage.head: self.message[self.index], an IndexError past the end
HasHead(m) == m.index < Len(m.message)
HeadOf(m) == m.message[m.index + 1]

\* InputMessage.step up to its call of head: the index moves on
Step(m) == [m EXCEPT !.index = @ + 1]

\* what a parser gives back: the message as it left it, and the value it
\* returned or the exception it raised
NoErr == ""
Returned(m, x) == [msg |-> m, out |-> x, err |-> NoErr]
Raised(m, e) == [msg |-> m, out |-> None, err |-> e]
IndexError == "IndexError"

\* ReconStructureParser.create_ident: true and false become Bool when the
\* value is a Text, everything else goes to Text.get_from
CreateIdent(x) ==
    IF x.type = "Text" /\ x.value = <<"t", "r", "u", "e">> THEN Bool(TRUE)
    ELSE IF x.type = "Text" /\ x.value = <<"f", "a", "l", "s", "e">> THEN Bool(FALSE)
    ELSE TextFrom(x)

\* ReconStructureParser.create_attr
CreateAttr(key, x) == AttrOf(key, x)

\* IdentParser.parse, the while loop: char is what step() returned
RECURSIVE IdentChars(_, _)
IdentChars(m, output) ==
    IF ~HasHead(m) THEN Raised(m, IndexError)
    ELSE IF IsIdentChar(HeadOf(m)) THEN IdentChars(Step(m), Append(output, HeadOf(m)))
    ELSE Returned(m, Str(output))

\* IdentParser.parse
IdentParser(m) ==
    IF ~HasHead(m) THEN Raised(m, IndexError)
    ELSE IF IsIdentStartChar(HeadOf(m))
    THEN LET r == IdentChars(Step(m), <<HeadOf(m)>>)
         IN IF r.err # NoErr THEN r ELSE Returned(r.msg, CreateIdent(r.out))
    ELSE Returned(m, CreateIdent(None))

\* LiteralParser.parse
LiteralParser(m) ==
    IF ~HasHead(m) THEN Raised(m, IndexError)
    ELSE IF HeadOf(m) \in {"(", "{", "["} THEN Returned(m, None)
    ELSE IF IsIdentStartChar(HeadOf(m))
    THEN LET r == IdentParser(m)
         IN IF r.err # NoErr THEN r ELSE Returned(r.msg, Bind(r.out))
    ELSE Returned(m, None)

\* PrimaryParser.parse
PrimaryParser(m) ==
    IF ~HasHead(m) THEN Raised(m, IndexError)
    ELSE IF HeadOf(m) = "(" THEN Returned(m, None)
    ELSE LiteralParser(m)

\* the operator parsers after their operand: head() is read, an operator
\* character ends the function without a return, anything else returns the
\* operand
AfterOperand(r, operators) ==
    IF r.err # NoErr THEN r
    ELSE IF ~HasHead(r.msg) THEN Raised(r.msg, IndexError)
    ELSE IF HeadOf(r.msg) \in operators THEN Returned(r.msg, None)
    ELSE r

\* InvokeOperatorParser.parse
InvokeOperatorParser(m) == AfterOperand(PrimaryParser(m), {"("})

\* PrefixOperatorParser.parse
PrefixOperatorParser(m) ==
    IF ~HasHead(m) THEN Raised(m, IndexError)
    ELSE IF HeadOf(m) \in {"!", "~", "-", "+"} THEN Returned(m, None)
    ELSE InvokeOperatorParser(m)

\* MultiplicativeOperatorParser.parse
MultiplicativeOperatorParser(m) == AfterOperand(PrefixOperatorParser(m), {"*", "/", "%"})

\* AdditiveOperatorParser.parse
AdditiveOperatorParser(m) == AfterOperand(MultiplicativeOperatorParser(m), {"+", "-"})

\* the parsers that await the next parser and return nothing
Discarded(r) == IF r.err # NoErr THEN r ELSE Returned(r.msg, None)

\* ReconUtils.is_ident_start_char(ord(char)) without await, as
\* AttrExpressionParser.parse calls it: a coroutine object, which is true
IsIdentStartCharCoroutine(c) == TRUE

RECURSIVE BlockParser(_)
RECURSIVE AttrParser(_)

\* AttrExpressionParser.parse
AttrExpressionParser(m) ==
    IF ~HasHead(m) THEN Raised(m, IndexError)
    ELSE IF HeadOf(m) = "@"
    THEN LET r == AttrParser(m)
         IN IF r.err # NoErr THEN r ELSE Returned(r.msg, RecordOf(r.out))
    ELSE IF IsIdentStartCharCoroutine(HeadOf(m))
    THEN LET r == AdditiveOperatorParser(m)
         IN IF r.err # NoErr THEN r ELSE Returned(r.msg, Bind(r.out))
    ELSE Returned(m, None)

\* ComparisonOperatorParser.parse
ComparisonOperatorParser(m) == Discarded(AttrExpressionParser(m))

\* BitwiseAndOperator.parse
BitwiseAndOperator(m) == Discarded(ComparisonOperatorParser(m))

\* BitwiseXorOperatorParser.parse
BitwiseXorOperatorParser(m) == Discarded(BitwiseAndOperator(m))

\* BitwiseOrOperatorParser.parse
BitwiseOrOperatorParser(m) == Discarded(BitwiseXorOperatorParser(m))

\* AndOperatorParser.parse
AndOperatorParser(m) == Discarded(BitwiseOrOperatorParser(m))

\* OrOperatorParser.parse
OrOperatorParser(m) == Discarded(AndOperatorParser(m))

\* ConditionalOperatorParser.parse
ConditionalOperatorParser(m) == Discarded(OrOperatorParser(m))

\* LambdaFuncParser.parse
LambdaFuncParser(m) == Discarded(ConditionalOperatorParser(m))

\* BlockParser.parse: strip the message, parse the block expression, and
\* return nothing
BlockParser(m) == Discarded(LambdaFuncParser(Strip(m)))

\* AttrParser.parse, after the key: the value in parentheses, when there is one
AttrValue(r) ==
    IF r.err # NoErr THEN r
    ELSE IF ~HasHead(r.msg) THEN Raised(r.msg, IndexError)
    ELSE IF HeadOf(r.msg) # "(" THEN Returned(r.msg, CreateAttr(r.out, None))
    ELSE IF ~HasHead(Step(r.msg)) THEN Raised(Step(r.msg), IndexError)
    ELSE IF HeadOf(Step(r.msg)) = ")" THEN Returned(Step(r.msg), CreateAttr(r.out, Extant))
    ELSE LET b == BlockParser(Step(r.msg))
         IN IF b.err # NoErr THEN b ELSE Returned(b.msg, CreateAttr(r.out, b.out))

\* AttrParser.parse
AttrParser(m) ==
    IF ~HasHead(m) THEN Raised(m, IndexError)
    ELSE IF HeadOf(m) # "@" THEN Returned(m, CreateAttr(None, None))
    ELSE IF ~HasHead(Step(m)) THEN Raised(Step(m), IndexError)
    ELSE AttrValue(IdentParser(Step(m)))

\* ReconParser.parse_block_string
ParseBlockString(s) == BlockParser(InputMessage(s))

\* nothing has been parsed yet
NotParsed == [status |-> "none", out |-> None, error |-> NoErr, index |-> 0]

\* the parser before a call
NoParse == [recon_string |-> <<>>, result |-> NotParsed]

-----------------------------------------------------------------------------
(* Initial states *)

\* the exception that ended a model's reader: none yet
NoError == <<>>

BlankModel ==
    [kind |-> "", host_uri |-> NoUri, node_uri |-> NoUri, lane_uri |-> NoUri,
     task |-> "none", error |-> NoError, linked |-> FALSE, synced |-> FALSE,
     value |-> Absent, map |-> <<>>, downlink_manager |-> NoModel, held |-> {Absent},
     events |-> <<>>, ignored |-> 0]

\* DownlinkManager(): no views, an empty class dictionary of its own (0),
\* not strict
BlankManager == [views |-> <<>>, registered_classes |-> 0, strict |-> FALSE]

\* DownlinkView.__init__ and the kinds' __init__.  callback tells whether
\* the user has set a callback, sync whether it is a plain function, which
\* validate_callback wraps with convert_to_async, and raises whether the
\* user's function raises when it is invoked
NewView ==
    [host_uri |-> NoUri, node_uri |-> NoUri, lane_uri |-> NoUri, is_open |-> FALSE,
     model |-> NoModel, downlink_manager |-> NoModel, deregister_classes |-> {},
     strict |-> FALSE, callback |-> FALSE, sync |-> FALSE, raises |-> FALSE,
     initialised |-> FALSE]

InitCommon ==
    /\ model = [m \in ModelIds |-> BlankModel]
    /\ manager = [m \in ModelIds |-> BlankManager]
    /\ nModels = 0
    /\ mgrOf = [r \in Routes |-> NoModel]
    /\ conn = [status |-> "closed", count |-> 0]
    /\ ready = <<>>
    /\ blocked = <<>>
    /\ sent = <<>>
    /\ dispatched = <<>>
    /\ lastCall = NoCall

\* nothing has happened yet; cap bounds the opens, scheduling calls and inbound
\* envelopes of the run together
Budget(cap) == [opens |-> 0, calls |-> 0, inbound |-> 0, config |-> 0, acts |-> 0,
                cap |-> cap, callcap |-> MaxCalls]

\* the runtime before any callback is scheduled.  follow tells whether the
\* run follows the callbacks through the runtime: when it does not, the tasks
\* of the callbacks are left out of the ready queue (a callback's task reads
\* and writes nothing of the downlinks)
Workers == {1, 2}
NoItem == [view |-> 0, op |-> "", args |-> <<>>, frame |-> 0]
Policies == {"print", "execute_on_exception", "terminate_on_exception"}
Runtime(follow) ==
    [follow |-> follow, policy |-> "print", pool |-> <<>>,
     workers |-> [w \in Workers |-> NoItem], invoked |-> <<>>, raised |-> <<>>,
     exited |-> FALSE]

\* SwimClient(terminate_on_exception, execute_on_exception): no loop and no
\* loop thread before start(), no executor before a plain function is
\* scheduled.  execute_on_exception is none, coroutine (a coroutine function)
\* or function (a plain function).  printed, print_tb and exit record the
\* calls of print, traceback.print_tb and os._exit; at is the position of the
\* thread that uses the client, calls the number of start() and stop() calls
\* and connects the number of transports the client's commands opened
Handlers == {"none", "coroutine", "function"}
NewClient(terminate, execute) ==
    [terminate_on_exception |-> terminate, execute_on_exception |-> execute,
     loop |-> "none", loop_thread |-> "none", executor |-> FALSE,
     printed |-> <<>>, print_tb |-> 0, exit |-> <<>>,
     at |-> "out", raised |-> FALSE, calls |-> 0, commands |-> 0, connects |-> 0]

\* the client of the downlink specifications: started, with the default
\* exception policy
StartedClient ==
    [NewClient(FALSE, "none") EXCEPT !.loop = "running", !.loop_thread = "alive"]

\* a view as built by its user before the first open()
BuiltView(lane, strict, cb) ==
    [NewView EXCEPT !.host_uri = "ws://h", !.node_uri = "a", !.lane_uri = lane,
                    !.strict = strict, !.callback = cb]

\* two views of the one lane: the first has registered the class P and a
\* callback, the second is strict and has neither
InitBuilt ==
    /\ view = [v \in Views |-> IF v = 1 THEN BuiltView("b", FALSE, TRUE)
                                         ELSE BuiltView("b", TRUE, FALSE)]
    /\ InitCommon
    /\ classDict = [v \in Views |-> IF v = 1 THEN Classes ELSE {}]

Init ==
    /\ kind \in {"value", "map", "event"}
    /\ InitBuilt
    /\ budget = Budget(MaxActs)
    /\ runtime = Runtime(FALSE)
    /\ client = StartedClient
    /\ parsed = NoParse

-----------------------------------------------------------------------------
(* The loop's queues *)

\* client.schedule_task: the task's first step is appended to the ready queue
Schedule(q, t) == Append(q, t)

\* client.schedule_task for each callback of cbs, in order: the tasks that
\* join the ready queue
Submitted(cbs, n) ==
    IF runtime.follow
    THEN [i \in 1 .. Len(cbs) |->
            [Task("callback", cbs[i].view, cbs[i].op, NoKey, cbs[i].args, NoEnv)
               EXCEPT !.frame = n]]
    ELSE <<>>

\* asyncio.Event.set(): the parked tasks that wait for it become ready, in
\* the order in which they parked
Waits(t, pc, v, m) == t.pc = pc /\ (v = 0 \/ t.view = v) /\ (m = NoModel \/ t.model = m)

Woken(b, pc, v, m) == SelectSeq(b, LAMBDA t : Waits(t, pc, v, m))
StillParked(b, pc, v, m) == SelectSeq(b, LAMBDA t : ~Waits(t, pc, v, m))

-----------------------------------------------------------------------------
(* The views' synchronous methods, run on a caller thread *)

\* DownlinkView.open
Open(v) ==
    /\ budget.opens < MaxOpens /\ budget.acts < budget.cap
    /\ ~view[v].is_open
    /\ view' = [view EXCEPT ![v].is_open = TRUE]
    /\ ready' = Schedule(ready, Task("add_view", v, "", NoKey, <<>>, NoEnv))
    /\ budget' = [budget EXCEPT !.opens = @ + 1, !.acts = @ + 1]
    /\ lastCall' = NoCall
    /\ dispatched' = <<>>
    /\ UNCHANGED <<kind, runtime, client, parsed, model, manager, nModels, mgrOf, conn, blocked, sent,
                   classDict>>

\* DownlinkView.close
Close(v) ==
    /\ view[v].is_open
    /\ view' = [view EXCEPT ![v].is_open = FALSE]
    /\ ready' = Schedule(ready, Task("remove_view", v, "", NoKey, <<>>, NoEnv))
    /\ lastCall' = NoCall
    /\ dispatched' = <<>>
    /\ UNCHANGED <<kind, runtime, client, parsed, model, manager, nModels, mgrOf, conn, blocked, sent,
                   classDict, budget>>

\* ValueDownlinkView.value
ViewValue(v) ==
    IF view[v].model = NoModel THEN Absent ELSE model[view[v].model].value

\* dict.get(key, default) on the replica map, a sequence of entries
\* [rk: canonical key, key: decoded key, val: decoded value]
HasKey(mp, rk) == \E i \in 1 .. Len(mp) : mp[i].rk = rk
Entry(mp, rk) == mp[CHOOSE i \in 1 .. Len(mp) : mp[i].rk = rk]

\* MapDownlinkView.map(key): Absent without a model, all entries for key
\* None, else self.model.map.get(key, Value.absent())
ViewMap(v, key) ==
    IF view[v].model = NoModel THEN Call("get", v, "value", Absent, <<>>)
    ELSE IF key = NoKey
         THEN Call("get", v, "values", Absent, model[view[v].model].map)
         ELSE IF HasKey(model[view[v].model].map, key)
              THEN Call("get", v, "entry", Absent, <<Entry(model[view[v].model].map, key)>>)
              ELSE Call("get", v, "value", Absent, <<>>)

\* the errors of the methods that need an open view
NotOpenError(op, v) == Call(op, v, "NotOpen", Absent, <<>>)

\* ValueDownlinkView.get / MapDownlinkView.get with wait_sync false
GetNow(v, key) ==
    /\ kind \in {"value", "map"}
    /\ kind = "value" => key = NoKey
    /\ lastCall' = IF ~view[v].is_open THEN NotOpenError("get", v)
                   ELSE IF kind = "value" THEN Call("get", v, "value", ViewValue(v), <<>>)
                   ELSE ViewMap(v, key)
    /\ dispatched' = <<>>
    /\ UNCHANGED <<kind, runtime, client, parsed, view, model, manager, nModels, mgrOf, conn, ready, blocked,
                   sent, classDict, budget>>

\* a slip in get / set / put / remove: the is_open test is left out
ScheduleAlways(op, v, t) ==
    /\ budget.calls < budget.callcap /\ budget.acts < budget.cap
    /\ ready' = Schedule(ready, t)
    /\ budget' = [budget EXCEPT !.calls = @ + 1, !.acts = @ + 1]
    /\ lastCall' = NoCall

\* a method that schedules a task when the view is open and fails otherwise
ScheduleIfOpen(op, v, t) ==
    IF view[v].is_open
    THEN /\ budget.calls < budget.callcap /\ budget.acts < budget.cap
         /\ ready' = Schedule(ready, t)
         /\ budget' = [budget EXCEPT !.calls = @ + 1, !.acts = @ + 1]
         /\ lastCall' = NoCall
    ELSE /\ lastCall' = NotOpenError(op, v)
         /\ UNCHANGED <<ready, budget>>

\* ValueDownlinkView.get / MapDownlinkView.get with wait_sync true
GetSync(v, key) ==
    /\ kind \in {"value", "map"}
    /\ kind = "value" => key = NoKey
    /\ ScheduleIfOpen("get", v, Task("get", v, "", key, <<>>, NoEnv))
    /\ dispatched' = <<>>
    /\ UNCHANGED <<kind, runtime, client, parsed, view, model, manager, nModels, mgrOf, conn, blocked, sent,
                   classDict>>

\* ValueDownlinkView.set
Set(v, x) ==
    /\ kind = "value"
    /\ ScheduleIfOpen("set", v, Task("send", v, "set", NoKey, <<x>>, NoEnv))
    /\ dispatched' = <<>>
    /\ UNCHANGED <<kind, runtime, client, parsed, view, model, manager, nModels, mgrOf, conn, blocked, sent,
                   classDict>>

\* MapDownlinkView.put
Put(v, k, x) ==
    /\ kind = "map"
    /\ ScheduleIfOpen("put", v, Task("send", v, "put", NoKey, <<k, x>>, NoEnv))
    /\ dispatched' = <<>>
    /\ UNCHANGED <<kind, runtime, client, parsed, view, model, manager, nModels, mgrOf, conn, blocked, sent,
                   classDict>>

\* MapDownlinkView.remove
Remove(v, k) ==
    /\ kind = "map"
    /\ ScheduleIfOpen("remove", v, Task("send", v, "remove", NoKey, <<k>>, NoEnv))
    /\ dispatched' = <<>>
    /\ UNCHANGED <<kind, runtime, client, parsed, view, model, manager, nModels, mgrOf, conn, blocked, sent,
                   classDict>>

-----------------------------------------------------------------------------
(* Attaching and detaching views: the tasks add_downlink_view and          *)
(* remove_downlink_view, through the pool, the connection and the manager  *)

Cur == Head(ready)
Rest == Tail(ready)
Running(k) == ready # <<>> /\ Cur.kind = k /\ Cur.pc # "spawn"

\* DownlinkView.registered_classes: the dictionary object the property returns
RegisteredDict(v) ==
    IF view[v].downlink_manager = NoModel THEN v
    ELSE manager[view[v].downlink_manager].registered_classes

\* DownlinkView.strict (getter)
ViewStrict(v) ==
    IF view[v].downlink_manager = NoModel THEN view[v].strict
    ELSE manager[view[v].downlink_manager].strict

\* DownlinkManager.is_open: true once the model has received linked
IsOpen(mdl) == mdl.linked

\* create_downlink_model / DownlinkView.initalise_model: the model's fields
InitialisedModel(v, m) ==
    [BlankModel EXCEPT !.kind = kind, !.host_uri = view[v].host_uri,
                       !.node_uri = view[v].node_uri, !.lane_uri = view[v].lane_uri,
                       !.downlink_manager = m]

\* DownlinkView.initalise_model: the manager's fields
InitialisedManager(v) ==
    [BlankManager EXCEPT !.registered_classes = RegisteredDict(v), !.strict = ViewStrict(v)]

\* a slip in EventDownlinkModel.establish_downlink: a SyncRequest is sent
EstablishWithSync(mdl) ==
    Envelope("sync", mdl.node_uri, mdl.lane_uri, NoBody)

\* establish_downlink: link for an event downlink, sync for value and map
EstablishDownlink(mdl) ==
    Envelope(IF mdl.kind = "event" THEN "link" ELSE "sync", mdl.node_uri, mdl.lane_uri, NoBody)

\* execute_did_set / execute_did_update / execute_did_remove / execute_on_event:
\* the callback is scheduled when the view has one
Execute(v, op, args) ==
    IF view[v].callback THEN <<Callback(v, op, args)>> ELSE <<>>


Char(c) == [t |-> "Char", s |-> c]

\* MapDownlinkView.register_manager: for key, value in self.model.map
\* iterates the dictionary's keys, the canonical strings, and unpacks each
\* into two names, which raises unless the string has two characters
RECURSIVE ReplayMap(_, _, _)
ReplayMap(v, mp, i) ==
    IF i > Len(mp) THEN [cbs |-> <<>>, failed |-> FALSE]
    ELSE IF Len(mp[i].rk) # 2 THEN [cbs |-> <<>>, failed |-> TRUE]
    ELSE LET rest == ReplayMap(v, mp, i + 1)
         IN [cbs |-> Execute(v, "did_update", <<Char(mp[i].rk[1]), Char(mp[i].rk[2]), Absent>>)
                       \o rest.cbs,
             failed |-> rest.failed]

\* a slip in register_manager: the replay does not look at manager.is_open
ReplayAlways(v, mdl) ==
    IF mdl.kind = "event" THEN [cbs |-> <<>>, failed |-> FALSE]
    ELSE IF mdl.kind = "value"
         THEN [cbs |-> Execute(v, "did_set", <<mdl.value, Absent>>), failed |-> FALSE]
         ELSE ReplayMap(v, mdl.map, 1)

\* register_manager: the replay to a view that joins an open manager
Replay(v, mdl) ==
    IF ~IsOpen(mdl) \/ mdl.kind = "event" THEN [cbs |-> <<>>, failed |-> FALSE]
    ELSE IF mdl.kind = "value"
         THEN [cbs |-> Execute(v, "did_set", <<mdl.value, Absent>>), failed |-> FALSE]
         ELSE ReplayMap(v, mdl.map, 1)

InSeq(x, sq) == \E i \in 1 .. Len(sq) : sq[i] = x
Without(sq, x) == SelectSeq(sq, LAMBDA y : y # x)

\* DownlinkManager.add_view with the pool's lookup of the manager: create
\* manager and model for a new route, register the manager with the view
\* (assign_manager, replay, initialised.set()), attach the view, and for the
\* first view open the model and establish the downlink
Attach(v, q) ==
    LET r == Route(v)
        isNew == mgrOf[r] = NoModel
        m == IF isNew THEN nModels + 1 ELSE mgrOf[r]
        dict == RegisteredDict(v)
        strict == ViewStrict(v)
        mgr0 == IF isNew THEN InitialisedManager(v) ELSE manager[m]
        mdl0 == IF isNew THEN InitialisedModel(v, m) ELSE model[m]
        replay == Replay(v, mdl0)
    IN
    /\ classDict' = [classDict EXCEPT ![mgr0.registered_classes] = @ \cup classDict[dict]]
    /\ dispatched' = replay.cbs
    /\ nModels' = IF isNew THEN m ELSE nModels
    /\ IF replay.failed
       THEN /\ view' = [view EXCEPT ![v].model = m, ![v].downlink_manager = m]
            /\ manager' = [manager EXCEPT ![m] = [mgr0 EXCEPT !.strict = strict]]
            /\ model' = [model EXCEPT ![m] = mdl0]
            /\ ready' = q \o Submitted(replay.cbs, 0)
            /\ UNCHANGED <<mgrOf, conn, blocked, sent>>
       ELSE /\ view' = [view EXCEPT ![v].model = m, ![v].downlink_manager = m,
                                    ![v].initialised = (kind # "event")]
            /\ manager' = [manager EXCEPT ![m] =
                             [mgr0 EXCEPT !.strict = strict,
                                          !.views = IF InSeq(v, @) THEN @ ELSE Append(@, v)]]
            /\ model' = [model EXCEPT ![m] =
                           IF isNew THEN [mdl0 EXCEPT !.task = "running"] ELSE mdl0]
            /\ ready' = q \o Submitted(replay.cbs, 0)
                           \o Woken(blocked, "wait_init", v, NoModel)
            /\ blocked' = StillParked(blocked, "wait_init", v, NoModel)
            /\ mgrOf' = [mgrOf EXCEPT ![r] = m]
            /\ conn' = IF isNew THEN [conn EXCEPT !.count = @ + 1] ELSE conn
            /\ sent' = IF isNew THEN Append(sent, Frame(EstablishDownlink(mdl0), m)) ELSE sent

ValidAddress(v) ==
    view[v].host_uri = "ws://h" /\ view[v].node_uri # NoUri /\ view[v].lane_uri # NoUri

\* the handle that run_coroutine_threadsafe queued runs: the task is created
\* and its first step is queued
Spawn ==
    /\ ready # <<>> /\ Cur.pc = "spawn"
    /\ ready' = Append(Rest, [Cur EXCEPT !.pc = "start"])
    /\ lastCall' = NoCall
    /\ dispatched' = <<>>
    /\ UNCHANGED <<kind, runtime, client, parsed, view, model, manager, nModels, mgrOf, conn, blocked, sent,
                   classDict, budget>>

\* add_downlink_view: wait for the host's transport, opening it when it is
\* closed, then attach
AddView ==
    /\ Running("add_view")
    /\ ValidAddress(Cur.view)
    /\ IF conn.status # "open"
       THEN /\ conn' = [conn EXCEPT !.status = "connecting"]
            /\ blocked' = Append(blocked, [Cur EXCEPT !.pc = "wait_connect"])
            /\ ready' = Rest
            /\ dispatched' = <<>>
            /\ UNCHANGED <<view, model, manager, nModels, mgrOf, sent, classDict>>
       ELSE Attach(Cur.view, Rest)
    /\ lastCall' = NoCall
    /\ UNCHANGED <<kind, runtime, client, parsed, budget>>

\* the transport's connect completes
TransportConnected ==
    /\ conn.status = "connecting"
    /\ conn' = [conn EXCEPT !.status = "open"]
    /\ ready' = ready \o Woken(blocked, "wait_connect", 0, NoModel)
    /\ blocked' = StillParked(blocked, "wait_connect", 0, NoModel)
    /\ lastCall' = NoCall
    /\ dispatched' = <<>>
    /\ UNCHANGED <<kind, runtime, client, parsed, view, model, manager, nModels, mgrOf, sent, classDict, budget>>

\* a slip in remove_downlink_view: the last view's removal closes the model
\* but keeps the connection reference
RemoveViewKeepsReference ==
    /\ Running("remove_view")
    /\ LET v == Cur.view
           m == mgrOf[Route(v)]
       IN IF m # NoModel /\ InSeq(v, manager[m].views)
          THEN LET left == Without(manager[m].views, v)
                   last == left = <<>>
               IN /\ manager' = [manager EXCEPT ![m].views = left]
                  /\ mgrOf' = IF last THEN [mgrOf EXCEPT ![Route(v)] = NoModel] ELSE mgrOf
                  /\ conn' = conn
                  /\ ready' = IF last
                              THEN Schedule(Rest, [Task("close", 0, "", NoKey, <<>>, NoEnv)
                                                     EXCEPT !.model = m])
                              ELSE Rest
          ELSE /\ ready' = Rest
               /\ UNCHANGED <<manager, mgrOf, conn>>
    /\ lastCall' = NoCall
    /\ dispatched' = <<>>
    /\ UNCHANGED <<kind, runtime, client, parsed, view, model, nModels, blocked, sent, classDict, budget>>

\* remove_downlink_view: detach the view from the manager of its route; the
\* last view closes the model and returns the connection reference, and the
\* transport is closed when no downlink is left
RemoveView ==
    /\ Running("remove_view")
    /\ LET v == Cur.view
           m == mgrOf[Route(v)]
       IN IF m # NoModel /\ InSeq(v, manager[m].views)
          THEN LET left == Without(manager[m].views, v)
                   last == left = <<>>
               IN /\ manager' = [manager EXCEPT ![m].views = left]
                  /\ mgrOf' = IF last THEN [mgrOf EXCEPT ![Route(v)] = NoModel] ELSE mgrOf
                  /\ conn' = IF ~last THEN conn
                             ELSE [status |-> IF conn.count = 1 THEN "closed" ELSE conn.status,
                                   count |-> conn.count - 1]
                  /\ ready' = IF last
                              THEN Schedule(Rest, [Task("close", 0, "", NoKey, <<>>, NoEnv)
                                                     EXCEPT !.model = m])
                              ELSE Rest
          ELSE /\ ready' = Rest
               /\ UNCHANGED <<manager, mgrOf, conn>>
    /\ lastCall' = NoCall
    /\ dispatched' = <<>>
    /\ UNCHANGED <<kind, runtime, client, parsed, view, model, nModels, blocked, sent, classDict, budget>>

\* DownlinkModel.__close: cancel the model's reader task
CloseModel ==
    /\ Running("close")
    /\ model' = [model EXCEPT ![Cur.model].task = "cancelled"]
    /\ ready' = Rest
    /\ lastCall' = NoCall
    /\ dispatched' = <<>>
    /\ UNCHANGED <<kind, runtime, client, parsed, view, manager, nModels, mgrOf, conn, blocked, sent, classDict, budget>>

-----------------------------------------------------------------------------
(* Inbound envelopes: the connection's reader and the models' handlers *)

\* the peer sends an envelope and the connection's reader, parked in recv,
\* takes it.  The reader's wakeup is taken to run at once: its place in the
\* ready queue is not modelled, so the reader's steps may fall between any
\* two steps of the other tasks
Arrives(env) ==
    /\ budget.inbound < MaxInbound /\ budget.acts < budget.cap
    /\ conn.status = "open"
    /\ budget' = [budget EXCEPT !.inbound = @ + 1, !.acts = @ + 1]

\* the number of the envelope that arrives, counted from 1
FrameNo == budget.inbound + 1

\* the events a model has handled, in the order of arrival, each as the
\* notification it stands for (for a map with the value that was stored
\* under the key); kept in the runs that follow the callbacks
Handled(events, op, args) ==
    IF runtime.follow THEN Append(events, [op |-> op, args |-> args, frame |-> FrameNo])
    ELSE events

\* the connection's registry (node, lane) -> manager
Target(env) == mgrOf[<<env.node, env.lane>>]
Receiving(env) == Target(env) # NoModel /\ model[Target(env)].task = "running"
Receives(env, tag) == Arrives(env) /\ Receiving(env) /\ env.tag = tag

\* no manager for the route, or its reader has ended: the envelope is dropped
RecvDrop(env) ==
    /\ Arrives(env)
    /\ ~Receiving(env)
    /\ lastCall' = NoCall
    /\ dispatched' = <<>>
    /\ UNCHANGED <<kind, runtime, client, parsed, view, model, manager, nModels, mgrOf, conn, ready, blocked,
                   sent, classDict>>

\* DownlinkModel.receive_linked
ReceiveLinked(env) ==
    /\ Receives(env, "linked")
    /\ LET m == Target(env)
       IN /\ model' = [model EXCEPT ![m].linked = TRUE]
          /\ ready' = ready \o Woken(blocked, "wait_linked", 0, m)
          /\ blocked' = StillParked(blocked, "wait_linked", 0, m)
    /\ lastCall' = NoCall
    /\ dispatched' = <<>>
    /\ UNCHANGED <<kind, runtime, client, parsed, view, manager, nModels, mgrOf, conn, sent, classDict>>

\* ValueDownlinkModel.receive_synced / MapDownlinkModel.receive_synced; an
\* event model raises TypeError, which ends the reader
ReceiveSynced(env) ==
    /\ Receives(env, "synced")
    /\ LET m == Target(env)
       IN IF model[m].kind = "event"
          THEN /\ model' = [model EXCEPT ![m].task = "failed", ![m].error = <<"TypeError">>]
               /\ UNCHANGED ready
               /\ UNCHANGED blocked
          ELSE /\ model' = [model EXCEPT ![m].synced = TRUE]
               /\ ready' = ready \o Woken(blocked, "wait_synced", 0, m)
               /\ blocked' = StillParked(blocked, "wait_synced", 0, m)
    /\ lastCall' = NoCall
    /\ dispatched' = <<>>
    /\ UNCHANGED <<kind, runtime, client, parsed, view, manager, nModels, mgrOf, conn, sent, classDict>>

\* a slip in receive_unlinked: laneNotFound is ignored like any other body
ReceiveUnlinkedIgnored(env) ==
    /\ Receives(env, "unlinked")
    /\ UNCHANGED model
    /\ UNCHANGED ready
    /\ lastCall' = NoCall
    /\ dispatched' = <<>>
    /\ UNCHANGED <<kind, runtime, client, parsed, view, manager, nModels, mgrOf, conn, blocked, sent, classDict>>

\* DownlinkModel.receive_unlinked: laneNotFound raises an exception that
\* names the model's lane, which ends the reader; any other body is ignored
ReceiveUnlinked(env) ==
    /\ Receives(env, "unlinked")
    /\ LET m == Target(env)
       IN model' = IF env.body.tag = "laneNotFound"
                   THEN [model EXCEPT ![m].task = "failed",
                                      ![m].error = <<"LaneNotFound", model[m].lane_uri>>]
                   ELSE model
    /\ UNCHANGED ready
    /\ lastCall' = NoCall
    /\ dispatched' = <<>>
    /\ UNCHANGED <<kind, runtime, client, parsed, view, manager, nModels, mgrOf, conn, blocked, sent, classDict>>

\* a slip in receive_message: a tag without a branch is taken for linked
ReceiveOtherAsLinked(env) ==
    /\ Arrives(env) /\ Receiving(env) /\ env.tag \in OtherTags
    /\ LET m == Target(env)
       IN /\ model' = [model EXCEPT ![m].linked = TRUE, ![m].ignored = 1]
          /\ ready' = ready \o Woken(blocked, "wait_linked", 0, m)
          /\ blocked' = StillParked(blocked, "wait_linked", 0, m)
    /\ lastCall' = NoCall
    /\ dispatched' = <<>>
    /\ UNCHANGED <<kind, runtime, client, parsed, view, manager, nModels, mgrOf, conn, sent, classDict>>

\* DownlinkModel.receive_message with a tag that matches no branch: the
\* method returns.  ignored records that such an envelope reached the model
ReceiveOther(env) ==
    /\ Arrives(env) /\ Receiving(env) /\ env.tag \in OtherTags
    /\ model' = [model EXCEPT ![Target(env)].ignored = 1]
    /\ UNCHANGED ready
    /\ UNCHANGED blocked
    /\ lastCall' = NoCall
    /\ dispatched' = <<>>
    /\ UNCHANGED <<kind, runtime, client, parsed, view, manager, nModels, mgrOf, conn, sent, classDict>>

\* a slip in __set_value: the body is stored as received, not converted
DecodeBodyRaw(m, body) == body.val

\* the decoding of an event body in __set_value and EventDownlinkModel.receive_event
DecodeBody(m, body) ==
    IF body = NoBody THEN Absent
    ELSE IF body.val.t \in {"Text", "Num", "Bool"} THEN body.val
    ELSE RecordToObject(body.val, classDict[manager[m].registered_classes], manager[m].strict)

\* the replica a value downlink holds after an event with this body, by the
\* payload decoding of the downlink model: Absent for an absent body, the
\* primitive for a primitive body, the converted record otherwise
Replica(m, body) ==
    IF body.val = Absent THEN Absent
    ELSE IF body.val.t = "Record"
         THEN RecordToObject(body.val, classDict[manager[m].registered_classes],
                             manager[m].strict)
         ELSE body.val

\* DownlinkManager.subscribers_*: every attached view, in attach order
RECURSIVE FanOut(_, _, _, _)
FanOut(vs, i, op, args) ==
    IF i > Len(vs) THEN <<>>
    ELSE Execute(vs[i], op, args) \o FanOut(vs, i + 1, op, args)

Subscribers(m, op, args) == FanOut(manager[m].views, 1, op, args)

\* a slip in __set_value: the old value is not read, Absent is reported
OldValueAbsent(m) == Absent

\* old_value = self.value, taken before the assignment
OldValue(m) == model[m].value

\* ValueDownlinkModel.receive_event / __set_value
ReceiveEventValue(env) ==
    /\ Receives(env, "event")
    /\ model[Target(env)].kind = "value"
    /\ LET m == Target(env)
           new == DecodeBody(m, env.body)
           cbs == Subscribers(m, "did_set", <<new, OldValue(m)>>)
       IN IF new = DecodeError
          THEN /\ model' = [model EXCEPT ![m].task = "failed", ![m].error = <<"DecodeError">>]
               /\ UNCHANGED ready
               /\ dispatched' = <<>>
          ELSE /\ model' = [model EXCEPT
                              ![m].value = new,
                              ![m].held = @ \cup {Replica(m, env.body)},
                              ![m].events = Handled(@, "did_set", <<new, OldValue(m)>>)]
               /\ ready' = ready \o Submitted(cbs, FrameNo)
               /\ dispatched' = cbs
    /\ lastCall' = NoCall
    /\ UNCHANGED <<kind, runtime, client, parsed, view, manager, nModels, mgrOf, conn, blocked, sent,
                   classDict>>

\* a slip in subscribers_on_event: every subscriber is notified twice
ReceiveEventEventTwice(env) ==
    /\ Receives(env, "event")
    /\ model[Target(env)].kind = "event"
    /\ LET m == Target(env)
           cbs == Subscribers(m, "on_event", <<DecodeBody(m, env.body)>>)
       IN /\ UNCHANGED model
          /\ ready' = ready \o Submitted(cbs \o cbs, FrameNo)
          /\ dispatched' = cbs \o cbs
    /\ lastCall' = NoCall
    /\ UNCHANGED <<kind, runtime, client, parsed, view, manager, nModels, mgrOf, conn, blocked, sent,
                   classDict>>

\* EventDownlinkModel.receive_event
ReceiveEventEvent(env) ==
    /\ Receives(env, "event")
    /\ model[Target(env)].kind = "event"
    /\ LET m == Target(env)
           event == DecodeBody(m, env.body)
           cbs == Subscribers(m, "on_event", <<event>>)
       IN IF event = DecodeError
          THEN /\ model' = [model EXCEPT ![m].task = "failed", ![m].error = <<"DecodeError">>]
               /\ UNCHANGED ready
               /\ dispatched' = <<>>
          ELSE /\ model' = [model EXCEPT ![m].events = Handled(@, "on_event", <<event>>)]
               /\ ready' = ready \o Submitted(cbs, FrameNo)
               /\ dispatched' = cbs
    /\ lastCall' = NoCall
    /\ UNCHANGED <<kind, runtime, client, parsed, view, manager, nModels, mgrOf, conn, blocked, sent,
                   classDict>>

\* a slip in __receive_update: every update adds an entry, none is replaced
MapAppend(mp, rk, k, x) == Append(mp, [rk |-> rk, key |-> k, val |-> x])

\* self.map[recon_key] = (key, value)
MapPut(mp, rk, k, x) ==
    IF HasKey(mp, rk)
    THEN [i \in 1 .. Len(mp) |-> IF mp[i].rk = rk THEN [rk |-> rk, key |-> k, val |-> x]
                                                   ELSE mp[i]]
    ELSE Append(mp, [rk |-> rk, key |-> k, val |-> x])

\* self.map.pop(recon_key, ...)
MapPop(mp, rk) == SelectSeq(mp, LAMBDA e : e.rk # rk)

\* self.map.get(recon_key, [Value.absent()])[0]: the first component of the
\* stored (key, value) tuple, or of the default list
FirstOfEntry(mp, rk) == IF HasKey(mp, rk) THEN Entry(mp, rk).key ELSE Absent

\* MapDownlinkModel.receive_event: __receive_update / __receive_remove
ReceiveEventMap(env) ==
    /\ Receives(env, "event")
    /\ model[Target(env)].kind = "map"
    /\ LET m == Target(env)
           body == env.body
           classes == classDict[manager[m].registered_classes]
           key == RecordToObject(body.key, classes, manager[m].strict)
           value == RecordToObject(body.val, classes, manager[m].strict)
           recon_key == ReconToString(body.key)
           old_value == FirstOfEntry(model[m].map, recon_key)
           cbs == IF body.tag = "update"
                  THEN Subscribers(m, "did_update", <<key, value, old_value>>)
                  ELSE Subscribers(m, "did_remove", <<key, old_value>>)
       IN /\ model' = [model EXCEPT
                         ![m].map = IF body.tag = "update"
                                    THEN MapPut(@, recon_key, key, value)
                                    ELSE MapPop(@, recon_key),
                         ![m].events =
                            LET stored == IF HasKey(model[m].map, recon_key)
                                          THEN Entry(model[m].map, recon_key).val
                                          ELSE Absent
                            IN IF body.tag = "update"
                               THEN Handled(@, "did_update", <<key, value, stored>>)
                               ELSE Handled(@, "did_remove", <<key, stored>>)]
          /\ ready' = ready \o Submitted(cbs, FrameNo)
          /\ dispatched' = cbs
    /\ lastCall' = NoCall
    /\ UNCHANGED <<kind, runtime, client, parsed, view, manager, nModels, mgrOf, conn, blocked, sent,
                   classDict>>

-----------------------------------------------------------------------------
(* The user callbacks in the runtime: the task that schedule_task creates  *)
(* for each, the worker pool for plain functions, the exception policy     *)

\* the callback that a task carries
Item(t) == [view |-> t.view, op |-> t.op, args |-> t.args, frame |-> t.frame]

\* the user's function is called; when it raises, the exception is given to
\* the client's exception policy: it is printed, the handler of
\* execute_on_exception is scheduled with it, or the process exits
Invoke(item) ==
    [runtime EXCEPT
       !.invoked = Append(@, item),
       !.raised = IF view[item.view].raises
                  THEN Append(@, [item |-> item, policy |-> runtime.policy])
                  ELSE @,
       !.exited = view[item.view].raises /\ runtime.policy = "terminate_on_exception"]

\* a slip in the runtime: the exception of a callback is raised into the
\* reader of the callback's downlink
EndsReader(item) ==
    IF view[item.view].raises /\ view[item.view].model # NoModel
    THEN [model EXCEPT ![view[item.view].model].task = "failed"]
    ELSE model

\* the models after a callback was invoked: the callback ran as a task of
\* its own, so what it raises reaches no handler of a downlink
AfterCallback(item) == model

\* the first step of a callback's task: a coroutine function is invoked on
\* the loop, a plain function is handed to the worker pool
RunCallback ==
    /\ Running("callback")
    /\ ready' = Rest
    /\ IF view[Cur.view].sync
       THEN /\ runtime' = [runtime EXCEPT !.pool = Append(@, Item(Cur))]
            /\ UNCHANGED model
       ELSE /\ runtime' = Invoke(Item(Cur))
            /\ model' = AfterCallback(Item(Cur))
    /\ lastCall' = NoCall
    /\ dispatched' = <<>>
    /\ UNCHANGED <<kind, client, parsed, view, manager, nModels, mgrOf, conn, blocked, sent, classDict,
                   budget>>

\* an idle worker of the pool takes the oldest work item
WorkerTakes(w) ==
    /\ runtime.workers[w] = NoItem
    /\ runtime.pool # <<>>
    /\ runtime' = [runtime EXCEPT !.workers[w] = Head(runtime.pool), !.pool = Tail(@)]
    /\ lastCall' = NoCall
    /\ dispatched' = <<>>
    /\ UNCHANGED <<kind, client, parsed, view, model, manager, nModels, mgrOf, conn, ready, blocked, sent,
                   classDict, budget>>

\* a worker calls the plain function of the item it took
WorkerInvokes(w) ==
    /\ runtime.workers[w] # NoItem
    /\ runtime' = [Invoke(runtime.workers[w]) EXCEPT !.workers[w] = NoItem]
    /\ model' = AfterCallback(runtime.workers[w])
    /\ lastCall' = NoCall
    /\ dispatched' = <<>>
    /\ UNCHANGED <<kind, client, parsed, view, manager, nModels, mgrOf, conn, ready, blocked, sent,
                   classDict, budget>>

-----------------------------------------------------------------------------
(* Commands and synchronised reads: the tasks send_message / put_message / *)
(* remove_message and __get_value                                          *)

\* the command envelope a view builds: CommandMessage(self.node_uri,
\* self.lane_uri, body)
CommandMessage(v, op, args) ==
    Envelope("command", view[v].node_uri, view[v].lane_uri,
             CASE op = "set" -> ValueBody(ObjectToRecord(args[1]))
               [] op = "put" -> UpdateBody(args[1], args[2])
               [] OTHER -> RemoveBody(args[1]))

\* a slip in send_message: the wait for linked is left out
MaySendAtOnce(m) == TRUE

\* ValueDownlinkModel.send_message / MapDownlinkModel.send_message: the frame
\* goes to the connection once linked is set
MaySend(m) == model[m].linked

\* connection.send_message
SendFrame(env, m) == Append(sent, Frame(env, m))

\* ValueDownlinkView.send_message, MapDownlinkView.put_message and
\* remove_message up to the frame's hand-over: await initialised, build the
\* message, await the model's linked, send
SendMessage ==
    /\ Running("send")
    /\ LET v == Cur.view
       IN IF Cur.pc = "wait_linked"
          THEN \* woken by linked.set()
               /\ sent' = SendFrame(Cur.env, Cur.model)
               /\ ready' = Rest
               /\ UNCHANGED blocked
          ELSE IF ~view[v].initialised
          THEN /\ blocked' = Append(blocked, [Cur EXCEPT !.pc = "wait_init"])
               /\ ready' = Rest
               /\ UNCHANGED sent
          ELSE LET m == view[v].model
                   message == CommandMessage(v, Cur.op, Cur.args)
               IN IF MaySend(m)
                  THEN /\ sent' = SendFrame(message, m)
                       /\ ready' = Rest
                       /\ UNCHANGED blocked
                  ELSE /\ blocked' = Append(blocked, [Cur EXCEPT !.pc = "wait_linked",
                                                               !.model = m, !.env = message])
                       /\ ready' = Rest
                       /\ UNCHANGED sent
    /\ lastCall' = NoCall
    /\ dispatched' = <<>>
    /\ UNCHANGED <<kind, runtime, client, parsed, view, model, manager, nModels, mgrOf, conn, classDict, budget>>

\* a slip in get_value: the wait for synced is left out
MayReturnAtOnce(m) == TRUE

\* ValueDownlinkModel.get_value / MapDownlinkModel.get_value: the value
\* returns once synced is set
MayReturn(m) == model[m].synced

\* what get_value returns: the value, or for a map every entry (key None)
\* or self.map.get(key, [Value.absent()])[0]
GetValueResult(v, m, key) ==
    IF model[m].kind = "value" THEN Call("get_sync", v, "value", model[m].value, <<>>)
    ELSE IF key = NoKey THEN Call("get_sync", v, "values", Absent, model[m].map)
    ELSE Call("get_sync", v, "value", FirstOfEntry(model[m].map, key), <<>>)

\* ValueDownlinkView.__get_value / MapDownlinkView.__get_value: await
\* initialised, then the model's get_value
GetValue ==
    /\ Running("get")
    /\ LET v == Cur.view
       IN IF Cur.pc = "wait_synced"
          THEN \* woken by synced.set()
               /\ lastCall' = GetValueResult(v, Cur.model, Cur.key)
               /\ ready' = Rest
               /\ UNCHANGED blocked
          ELSE IF ~view[v].initialised
          THEN /\ blocked' = Append(blocked, [Cur EXCEPT !.pc = "wait_init"])
               /\ ready' = Rest
               /\ lastCall' = NoCall
          ELSE LET m == view[v].model
               IN IF MayReturn(m)
                  THEN /\ lastCall' = GetValueResult(v, m, Cur.key)
                       /\ ready' = Rest
                       /\ UNCHANGED blocked
                  ELSE /\ blocked' = Append(blocked, [Cur EXCEPT !.pc = "wait_synced",
                                                               !.model = m])
                       /\ ready' = Rest
                       /\ lastCall' = NoCall
    /\ dispatched' = <<>>
    /\ UNCHANGED <<kind, runtime, client, parsed, view, model, manager, nModels, mgrOf, conn, sent, classDict, budget>>

-----------------------------------------------------------------------------
(* The views' configuration methods, run on a caller thread *)

\* the argument of a configuration call, as lastCall records it
Uri(u) == [t |-> "Uri", s |-> u]
Flag(b) == [t |-> "Bool", s |-> IF b THEN "True" ELSE "False"]
ClassArg(c) == [t |-> "Class", s |-> c]

ClassInputs == {"P", "Q"}
ClassListInput == <<"P", "Q">>

\* a configuration call of view v returns or raises
Configures(op, v, status, arg) ==
    /\ budget.config < MaxConfig
    /\ budget' = [budget EXCEPT !.config = @ + 1]
    /\ lastCall' = Call(op, v, status, arg, <<>>)
    /\ dispatched' = <<>>
    /\ UNCHANGED <<kind, runtime, client, parsed, model, nModels, mgrOf, conn, ready, blocked, sent>>

\* downlink_utils.before_open: the decorated method runs while the view is not
\* open, and the call is an error once it is
BeforeOpen(v) == ~view[v].is_open

\* DownlinkView.set_host_uri
SetHostUri(v, h) ==
    /\ IF ~BeforeOpen(v)
       THEN Configures("set_host_uri", v, "AlreadyOpen", Uri(h)) /\ UNCHANGED view
       ELSE IF NormaliseWarpScheme(h) = "Rejected"
       THEN Configures("set_host_uri", v, "Rejected", Uri(h)) /\ UNCHANGED view
       ELSE /\ view' = [view EXCEPT ![v].host_uri = NormaliseWarpScheme(h)]
            /\ Configures("set_host_uri", v, "ok", Uri(h))
    /\ UNCHANGED <<manager, classDict>>

\* DownlinkView.set_node_uri
SetNodeUri(v, n) ==
    /\ IF ~BeforeOpen(v)
       THEN Configures("set_node_uri", v, "AlreadyOpen", Uri(n)) /\ UNCHANGED view
       ELSE /\ view' = [view EXCEPT ![v].node_uri = n]
            /\ Configures("set_node_uri", v, "ok", Uri(n))
    /\ UNCHANGED <<manager, classDict>>

\* a slip in set_lane_uri: the node is assigned instead of the lane
SetLaneUriToNode(v, l) ==
    /\ IF ~BeforeOpen(v)
       THEN Configures("set_lane_uri", v, "AlreadyOpen", Uri(l)) /\ UNCHANGED view
       ELSE /\ view' = [view EXCEPT ![v].node_uri = l]
            /\ Configures("set_lane_uri", v, "ok", Uri(l))
    /\ UNCHANGED <<manager, classDict>>

\* DownlinkView.set_lane_uri
SetLaneUri(v, l) ==
    /\ IF ~BeforeOpen(v)
       THEN Configures("set_lane_uri", v, "AlreadyOpen", Uri(l)) /\ UNCHANGED view
       ELSE /\ view' = [view EXCEPT ![v].lane_uri = l]
            /\ Configures("set_lane_uri", v, "ok", Uri(l))
    /\ UNCHANGED <<manager, classDict>>

\* DownlinkView.strict (setter): with a manager, the manager's flag is set to
\* the view's private flag; without one, the private flag is set to the argument
SetStrict(v, b) ==
    /\ IF view[v].downlink_manager # NoModel
       THEN /\ manager' = [manager EXCEPT ![view[v].downlink_manager].strict = view[v].strict]
            /\ UNCHANGED view
       ELSE /\ view' = [view EXCEPT ![v].strict = b]
            /\ UNCHANGED manager
    /\ Configures("strict", v, "ok", Flag(b))
    /\ UNCHANGED classDict

\* the class dictionaries and the view's deregister set, as the registration
\* methods of view v thread them: [cd |-> classDict, dr |-> deregister_classes]
Registry(v) == [cd |-> classDict, dr |-> view[v].deregister_classes]

\* a slip in __register_class: the class always goes to the view's own dictionary
RegisterPrivately(v, st, c) ==
    [st EXCEPT !.cd[v] = @ \cup {c}, !.dr = @ \ {c}]

\* DownlinkView.__register_class (every class input has a default constructor)
RegisterOne(v, st, c) ==
    IF view[v].downlink_manager # NoModel
    THEN [st EXCEPT !.cd[manager[view[v].downlink_manager].registered_classes] = @ \cup {c}]
    ELSE [st EXCEPT !.cd[v] = @ \cup {c}, !.dr = @ \ {c}]

\* DownlinkView.deregister_class
DeregisterOne(v, st, c) ==
    IF view[v].downlink_manager # NoModel
    THEN [st EXCEPT !.cd[manager[view[v].downlink_manager].registered_classes] = @ \ {c}]
    ELSE [st EXCEPT !.cd[v] = @ \ {c}, !.dr = @ \cup {c}]

\* for custom_class in classes_list: self.__register_class(custom_class)
RECURSIVE RegisterEach(_, _, _, _)
RegisterEach(v, st, list, i) ==
    IF i > Len(list) THEN st ELSE RegisterEach(v, RegisterOne(v, st, list[i]), list, i + 1)

\* for custom_class in classes_list: self.deregister_class(custom_class)
RECURSIVE DeregisterEach(_, _, _, _)
DeregisterEach(v, st, list, i) ==
    IF i > Len(list) THEN st ELSE DeregisterEach(v, DeregisterOne(v, st, list[i]), list, i + 1)

\* DownlinkView.deregister_all_classes
DeregisterAll(v, st) ==
    IF view[v].downlink_manager # NoModel
    THEN LET d == manager[view[v].downlink_manager].registered_classes
         IN [st EXCEPT !.dr = @ \cup st.cd[d], !.cd[d] = {}]
    ELSE [st EXCEPT !.cd[v] = {}]

\* a registration method returns: the dictionaries and the set it leaves
Registers(op, v, arg, st) ==
    /\ classDict' = st.cd
    /\ view' = [view EXCEPT ![v].deregister_classes = st.dr]
    /\ Configures(op, v, "ok", arg)
    /\ UNCHANGED manager

\* DownlinkView.register_class
RegisterClass(v, c) ==
    Registers("register_class", v, ClassArg(c), RegisterOne(v, Registry(v), c))

\* DownlinkView.register_classes
RegisterClasses(v, list) ==
    Registers("register_classes", v, ClassArg("list"), RegisterEach(v, Registry(v), list, 1))

\* DownlinkView.deregister_class
DeregisterClass(v, c) ==
    Registers("deregister_class", v, ClassArg(c), DeregisterOne(v, Registry(v), c))

\* DownlinkView.deregister_classes
DeregisterClasses(v, list) ==
    Registers("deregister_classes", v, ClassArg("list"), DeregisterEach(v, Registry(v), list, 1))

\* DownlinkView.deregister_all_classes
DeregisterAllClasses(v) ==
    Registers("deregister_all_classes", v, ClassArg("all"), DeregisterAll(v, Registry(v)))

\* add_downlink_view for a view without a full address: the task ends with
\* the error and the view is not attached
AddViewFails ==
    /\ Running("add_view")
    /\ ~ValidAddress(Cur.view)
    /\ ready' = Rest
    /\ lastCall' = NoCall
    /\ dispatched' = <<>>
    /\ UNCHANGED <<kind, runtime, client, parsed, view, model, manager, nModels, mgrOf, conn, blocked, sent,
                   classDict, budget>>

-----------------------------------------------------------------------------
(* The downlink specification: built views, their users, the peer, the loop *)

UserKeys == {NoKey, ReconToString(TextK)}

\* the call whose outcome lastCall holds returns to its caller
Return ==
    /\ lastCall # NoCall
    /\ lastCall' = NoCall
    /\ dispatched' = <<>>
    /\ UNCHANGED <<kind, runtime, client, parsed, view, model, manager, nModels, mgrOf, conn, ready, blocked,
                   sent, classDict, budget>>

\* the envelopes the peer may send: any tag, on a lane of the views
Inbound ==
    UNION {{Envelope(tag, "a", view[v].lane_uri, body) :
               v \in Views, body \in InboundBodies(kind, tag)} : tag \in InboundTags}

\* no call is returning: the callers and the loop take their next step
Idle == lastCall = NoCall

Next ==
    \/ Return
    \/ Idle /\ \E v \in Views : Open(v)
    \/ Idle /\ \E v \in Views : Close(v)
    \/ Idle /\ \E v \in Callers, key \in UserKeys : GetNow(v, key)
    \/ Idle /\ \E v \in Callers, key \in UserKeys : GetSync(v, key)
    \/ Idle /\ \E v \in Callers : Set(v, Num7)
    \/ Idle /\ \E v \in Callers : Put(v, TextK, TextV)
    \/ Idle /\ \E v \in Callers : Remove(v, TextK)
    \/ Idle /\ Spawn
    \/ Idle /\ AddView
    \/ Idle /\ TransportConnected
    \/ Idle /\ RemoveView
    \/ Idle /\ CloseModel
    \/ Idle /\ \E env \in Inbound : RecvDrop(env)
    \/ Idle /\ \E env \in Inbound : ReceiveLinked(env)
    \/ Idle /\ \E env \in Inbound : ReceiveSynced(env)
    \/ Idle /\ \E env \in Inbound : ReceiveUnlinked(env)
    \/ Idle /\ \E env \in Inbound : ReceiveEventValue(env)
    \/ Idle /\ \E env \in Inbound : ReceiveEventEvent(env)
    \/ Idle /\ \E env \in Inbound : ReceiveEventMap(env)
    \/ Idle /\ SendMessage
    \/ Idle /\ GetValue

Spec == Init /\ [][Next]_vars

-----------------------------------------------------------------------------
(* The claims about calls on views that are not open, commands, reads and  *)
(* the opening request (downlink specification)                            *)

Last(q) == q[Len(q)]

\* the step scheduled a task of get, set, put or remove
SchedulesCall ==
    /\ Len(ready') = Len(ready) + 1
    /\ Last(ready').pc = "spawn"
    /\ Last(ready').kind \in {"get", "send"}

\* C1: a get, set, put or remove on a value or map view that is not open
\* (never opened, or opened and closed) raises the not-open error, and that
\* step schedules no task, sends no frame and leaves the views, the models
\* and their replicas as they were; only a call on an open view is served
\* with a result or a scheduled task
C1_NotOpenCallsFail ==
    [][/\ lastCall'.status = "NotOpen" =>
            /\ lastCall'.op \in {"get", "set", "put", "remove"}
            /\ ~view[lastCall'.view].is_open
            /\ UNCHANGED <<view, model, manager, mgrOf, conn, ready, blocked, sent>>
            /\ dispatched' = <<>>
       /\ (lastCall'.op = "get" /\ lastCall'.status # "NotOpen") =>
            view[lastCall'.view].is_open
       /\ SchedulesCall => view[Last(ready').view].is_open]_vars

\* C1 witness: a call failed on a view that had been opened, attached to its
\* model and closed again
C1_Witness ==
    /\ lastCall.status = "NotOpen"
    /\ view[lastCall.view].model # NoModel
    /\ ~view[lastCall.view].is_open

\* C4: every command frame handed to the connection went through a model
\* that had received linked; a command is held only while what it waits for
\* is unset: parked for the view's initialised while the view is not
\* initialised, or for the model's linked while the model is not linked, so
\* that it joins the ready queue, and is sent, once linked is set
C4_CommandsWaitForLinked ==
    /\ \A i \in 1 .. Len(sent) : sent[i].tag = "command" => model[sent[i].via].linked
    /\ \A i \in 1 .. Len(blocked) :
          blocked[i].kind = "send" =>
             \/ blocked[i].pc = "wait_init" /\ ~view[blocked[i].view].initialised
             \/ /\ blocked[i].pc = "wait_linked"
                /\ ~model[blocked[i].model].linked
                /\ blocked[i].env.tag = "command"

\* C4 witness: a command frame has been handed to the connection
C4_Witness ==
    \E i \in 1 .. Len(sent) : sent[i].tag = "command" /\ sent[i].body = ValueBody(Num7)

\* C5: a get(wait_sync=True) that returns does so with synced set on the
\* view's model, and returns the replica as the model holds it at that
\* moment (the value, or for a map read without a key all its entries); a
\* pending get is parked only while the view is not initialised or the model
\* not synced, so once both are set it is in the ready queue and returns
C5_GetWaitsForSynced ==
    /\ lastCall.op = "get_sync" =>
          LET m == view[lastCall.view].model
          IN /\ m # NoModel
             /\ model[m].synced
             /\ model[m].kind = "value" => lastCall.val = model[m].value
             /\ lastCall.status = "values" => lastCall.coll = model[m].map
    /\ \A i \in 1 .. Len(blocked) :
          blocked[i].kind = "get" =>
             \/ blocked[i].pc = "wait_init" /\ ~view[blocked[i].view].initialised
             \/ blocked[i].pc = "wait_synced" /\ ~model[blocked[i].model].synced

\* C5 witness: a get(wait_sync=True) returned the value an event had set
C5_Witness ==
    /\ lastCall.op = "get_sync"
    /\ lastCall.val = Num42

\* the request frames sent through model m
Requests(m) == {i \in 1 .. Len(sent) : sent[i].via = m /\ sent[i].tag \in {"link", "sync"}}

\* C7: a model that has been opened has sent exactly one request frame, a
\* link for an event downlink and a sync for a value or map downlink, with
\* the model's node and lane and no body; no frame went through the model
\* before its request, and a model that has not been opened has sent none;
\* the first frame ever sent is a request
C7_OneRequestPerOpen ==
    /\ \A m \in ModelIds :
          IF model[m].task # "none"
          THEN /\ Cardinality(Requests(m)) = 1
               /\ \A i \in Requests(m) :
                     /\ sent[i].tag = IF model[m].kind = "event" THEN "link" ELSE "sync"
                     /\ sent[i].node = model[m].node_uri
                     /\ sent[i].lane = model[m].lane_uri
                     /\ sent[i].body = NoBody
                     /\ \A j \in 1 .. Len(sent) : sent[j].via = m => i <= j
          ELSE \A j \in 1 .. Len(sent) : sent[j].via # m
    /\ sent # <<>> => sent[1].tag \in {"link", "sync"}

\* C7 witness: a lane opened, a command sent, the lane closed and opened again
C7_Witness ==
    /\ nModels = 2
    /\ Len(sent) = 3
    /\ model[2].task = "running"

\* the views of manager m that have a callback, in attach order
CallbackViews(m) == SelectSeq(manager[m].views, LAMBDA v : view[v].callback)

\* C10 (the claim as stated): an inbound update for key K with payload V
\* stores (K, V) under K's canonical string and dispatches
\* did_update(K, V, old) to the subscribers, old being the value stored
\* under that key before, or Absent
C10_UpdateReportsOldValue ==
    [][\A env \in Inbound :
          (ReceiveEventMap(env) /\ env.body.tag = "update") =>
             LET m == Target(env)
                 rk == ReconToString(env.body.key)
                 old == IF HasKey(model[m].map, rk) THEN Entry(model[m].map, rk).val
                        ELSE Absent
                 to == CallbackViews(m)
             IN /\ HasKey(model'[m].map, rk)
                /\ Entry(model'[m].map, rk).key = env.body.key
                /\ Entry(model'[m].map, rk).val = env.body.val
                /\ dispatched' = [i \in 1 .. Len(to) |->
                                    Callback(to[i], "did_update",
                                             <<env.body.key, env.body.val, old>>)]]_vars

\* C11 (the claim as stated): an inbound remove for key K deletes the entry
\* under K's canonical string and dispatches did_remove(K, old) to the
\* subscribers, old being the value stored for K before, or Absent when K had
\* no entry; the remove of a key that is not present leaves the map unchanged
C11_RemoveReportsOldValue ==
    [][\A env \in Inbound :
          (ReceiveEventMap(env) /\ env.body.tag = "remove") =>
             LET m == Target(env)
                 rk == ReconToString(env.body.key)
                 old == IF HasKey(model[m].map, rk) THEN Entry(model[m].map, rk).val
                        ELSE Absent
                 to == CallbackViews(m)
             IN /\ ~HasKey(model'[m].map, rk)
                /\ ~HasKey(model[m].map, rk) => model'[m].map = model[m].map
                /\ dispatched' = [i \in 1 .. Len(to) |->
                                    Callback(to[i], "did_remove",
                                             <<env.body.key, old>>)]]_vars

\* the canonical key strings of a replica map
KeyStrings(mp) == {mp[i].rk : i \in 1 .. Len(mp)}

LaneNotFound(m) == model[m].error # NoError /\ model[m].error[1] = "LaneNotFound"

\* C15: an unlinked with the body tag laneNotFound, whatever the state of
\* the downlink, raises an error that names the lane and ends the downlink's
\* reader for good; from then on every envelope of the route is dropped, no
\* step changes the replica, and no inbound step dispatches a callback
C15_LaneNotFoundIsTerminal ==
    [][/\ \A env \in Inbound :
             (ReceiveUnlinked(env) /\ env.body.tag = "laneNotFound") =>
                /\ model'[Target(env)].task = "failed"
                /\ model'[Target(env)].error = <<"LaneNotFound", env.lane>>
       /\ \A m \in ModelIds :
             LaneNotFound(m) =>
                /\ model'[m].task # "running"
                /\ model'[m].error = model[m].error
                /\ model'[m].value = model[m].value
                /\ model'[m].map = model[m].map
                /\ \A env \in Inbound :
                      (Target(env) = m /\ budget'.inbound # budget.inbound) =>
                         dispatched' = <<>> /\ model' = model]_vars

\* a linked downlink with a subscriber has received laneNotFound and its
\* replica is as it was, a third envelope having arrived on the route
C15_Witness ==
    \E m \in ModelIds :
       /\ LaneNotFound(m)
       /\ model[m].error[2] = "b"
       /\ model[m].linked
       /\ manager[m].views # <<>>
       /\ model[m].value = Absent /\ model[m].map = <<>>
       /\ budget.inbound = 3

\* C14 (the claim as stated): a map view that attaches to a manager whose
\* model is linked is handed did_update(k, v, Absent) exactly once for each
\* entry (k, v) of the replica map, and the attaching completes, the view
\* becoming initialised, whatever the map holds
C14_MapReplayAtAttach ==
    [][(AddView /\ conn.status = "open" /\ kind = "map") =>
          LET v == Cur.view
              m == mgrOf[Route(v)]
          IN (m # NoModel /\ model[m].linked) =>
                /\ view'[v].initialised
                /\ InSeq(v, manager'[m].views)
                /\ dispatched' =
                      IF view[v].callback
                      THEN [i \in 1 .. Len(model[m].map) |->
                              Callback(v, "did_update",
                                       <<model[m].map[i].key, model[m].map[i].val, Absent>>)]
                      ELSE <<>>]_vars

\* C16 (the claim as stated): an unlinked with any body other than
\* laneNotFound, whatever the state of the downlink, closes the downlink (its
\* reader no longer runs and the route has no manager), notifies the
\* subscribers that have a callback, and releases the model's reference to
\* the connection
C16_UnlinkedCloses ==
    [][\A env \in Inbound :
          (ReceiveUnlinked(env) /\ env.body.tag # "laneNotFound") =>
             LET m == Target(env)
             IN /\ model'[m].task # "running"
                /\ mgrOf'[<<env.node, env.lane>>] = NoModel
                /\ conn'.count = conn.count - 1
                /\ Len(dispatched') = Len(CallbackViews(m))]_vars

-----------------------------------------------------------------------------
(* The value specification: value downlinks alone, in longer runs *)

InitValue ==
    /\ kind = "value"
    /\ InitBuilt
    /\ budget = Budget(MaxActs + 1)
    /\ runtime = Runtime(FALSE)
    /\ client = StartedClient
    /\ parsed = NoParse

NextValue ==
    \/ Return
    \/ Idle /\ \E v \in Views : Open(v)
    \/ Idle /\ \E v \in Views : Close(v)
    \/ Idle /\ \E v \in Callers : GetNow(v, NoKey)
    \/ Idle /\ \E v \in Callers : GetSync(v, NoKey)
    \/ Idle /\ \E v \in Callers : Set(v, Num7)
    \/ Idle /\ Spawn
    \/ Idle /\ AddView
    \/ Idle /\ TransportConnected
    \/ Idle /\ RemoveView
    \/ Idle /\ CloseModel
    \/ Idle /\ \E env \in Inbound : RecvDrop(env)
    \/ Idle /\ \E env \in Inbound : ReceiveLinked(env)
    \/ Idle /\ \E env \in Inbound : ReceiveSynced(env)
    \/ Idle /\ \E env \in Inbound : ReceiveUnlinked(env)
    \/ Idle /\ \E env \in Inbound : ReceiveEventValue(env)
    \/ Idle /\ SendMessage
    \/ Idle /\ GetValue

SpecValue == InitValue /\ [][NextValue]_vars

-----------------------------------------------------------------------------
(* The claims about the value replica (value specification) *)

\* C6: a get() without waiting on an open value view returns in the call's
\* own step, scheduling no task and parking nothing, and what it returns is
\* the replica after some prefix of the events the view's model received:
\* Absent when the view has no model yet, else Absent or the decoding of one
\* of the events received so far
C6_GetReturnsSnapshot ==
    [][(lastCall'.op = "get" /\ lastCall'.status # "NotOpen") =>
          /\ lastCall'.status = "value"
          /\ UNCHANGED <<view, model, manager, ready, blocked, sent, budget>>
          /\ lastCall'.val \in IF view[lastCall'.view].model = NoModel THEN {Absent}
                               ELSE model[view[lastCall'.view].model].held]_vars

\* C6 witness: a get() returned the instance decoded from a record event
C6_Witness ==
    /\ lastCall.op = "get"
    /\ lastCall.val = ObjP

C9_NothingBeforeLinked ==
    /\ \A m \in ModelIds : ~model[m].linked => model[m].value = Absent
    /\ \A i \in 1 .. Len(dispatched) :
          dispatched[i].op = "did_set" => model[view[dispatched[i].view].model].linked

\* C13: a value view that attaches to a manager whose model is linked is
\* handed exactly one did_set(current replica, Absent) in the step that
\* attaches it, a view that attaches before the model is linked is handed
\* nothing, and an event notifies attached views only, so the replay precedes
\* every did_set that a later event causes
C13_ReplayAtAttach ==
    [][/\ (AddView /\ conn.status = "open") =>
             LET v == Cur.view
                 m == mgrOf[Route(v)]
             IN dispatched' =
                   IF m # NoModel /\ model[m].linked /\ view[v].callback
                   THEN <<Callback(v, "did_set", <<model[m].value, Absent>>)>>
                   ELSE <<>>
       /\ \A env \in Inbound :
             ReceiveEventValue(env) =>
                \A i \in 1 .. Len(dispatched') :
                   InSeq(dispatched'[i].view, manager[Target(env)].views)]_vars

\* view 1 has joined a linked model that holds 42 and has been handed
\* did_set(42, Absent): the model's reader has ended since the event, so the
\* notification is the replay and not the fan-out of an event
C13_Witness ==
    \E m \in ModelIds :
       /\ model[m].linked
       /\ model[m].value = Num42
       /\ model[m].task = "failed"
       /\ manager[m].views = <<2, 1>>
       /\ dispatched = <<Callback(1, "did_set", <<Num42, Absent>>)>>

-----------------------------------------------------------------------------
(* The callback specification: two subscribers of one value lane, their    *)
(* callbacks followed through the runtime                                  *)

\* both views have a did_set callback; that of view 1 is a coroutine
\* function or a plain function and may raise, and the client has any of
\* the exception policies
InitCallbacks ==
    /\ kind = "value"
    /\ \E sync \in BOOLEAN, raises \in BOOLEAN :
          view = [v \in Views |->
                    IF v = 1 THEN [BuiltView("b", FALSE, TRUE) EXCEPT !.sync = sync,
                                                                      !.raises = raises]
                    ELSE BuiltView("b", FALSE, TRUE)]
    /\ InitCommon
    /\ classDict = [v \in Views |-> Classes]
    /\ budget = Budget(MaxActs + 1)
    /\ \E policy \in Policies :
          /\ view[1].raises \/ policy = "print"
          /\ runtime = [Runtime(TRUE) EXCEPT !.policy = policy]
    /\ client = StartedClient
    /\ parsed = NoParse

\* the process has not exited
Alive == ~runtime.exited

NextCallbacks ==
    \/ Alive /\ \E v \in Views : Open(v)
    \/ Alive /\ Spawn
    \/ Alive /\ AddView
    \/ Alive /\ TransportConnected
    \/ Alive /\ \E env \in Inbound : RecvDrop(env)
    \/ Alive /\ \E env \in Inbound : ReceiveLinked(env)
    \/ Alive /\ \E env \in Inbound : ReceiveEventValue(env)
    \/ Alive /\ RunCallback
    \/ Alive /\ \E w \in Workers : WorkerTakes(w)
    \/ Alive /\ \E w \in Workers : WorkerInvokes(w)

SpecCallbacks == InitCallbacks /\ [][NextCallbacks]_vars

-----------------------------------------------------------------------------
(* The claims about the invocation of callbacks (callback specification) *)

\* the callbacks of view v invoked so far that inbound frames caused, in the
\* order of their invocation
Observed(v) == SelectSeq(runtime.invoked, LAMBDA it : it.view = v /\ it.frame > 0)

\* C17 (the claim as stated): for each subscriber, the callbacks caused by
\* inbound frames of the route are invoked in the order of the frames,
\* whether they are coroutine functions or plain functions run on the
\* worker pool
C17_CallbacksInFrameOrder ==
    \A v \in Views :
       \A i, j \in 1 .. Len(Observed(v)) :
          i < j => Observed(v)[i].frame < Observed(v)[j].frame

\* the notification of an item, without the frame's number
Notification(it) == [op |-> it.op, args |-> it.args]

\* C18 (the claim as stated): at any instant the notifications that a
\* subscriber has observed, the replay of a late joiner aside, are a run of
\* consecutive events that its model has handled, in the server's order:
\* each is the notification of an event, and none is skipped, duplicated
\* or invented
C18_ObservedIsPrefix ==
    \A v \in Views :
       LET seen == Observed(v)
           events == IF view[v].model = NoModel THEN <<>>
                     ELSE model[view[v].model].events
       IN seen # <<>> =>
             \E start \in 1 .. Len(events) :
                /\ start + Len(seen) - 1 <= Len(events)
                /\ \A i \in 1 .. Len(seen) :
                      /\ events[start + i - 1].frame = seen[i].frame
                      /\ Notification(events[start + i - 1]) = Notification(seen[i])

\* the step invoked a callback
Invokes == Len(runtime'.invoked) = Len(runtime.invoked) + 1

\* the step leaves the protocol path as it was: the views, the models with
\* their replicas and readers, the managers, the connection and the frames
\* sent; of the loop's tasks at most the callback's own task is gone
ProtocolPathKept ==
    /\ UNCHANGED <<view, model, manager, mgrOf, conn, sent, blocked>>
    /\ ready' = ready \/ ready' = Tail(ready)

\* an event is handled whatever the callbacks of the subscribers do: the
\* replica is updated, the reader goes on, and a callback is scheduled for
\* every subscriber that has one
EventsHandledAlike ==
    \A env \in Inbound :
       (ReceiveEventValue(env) /\ DecodeBody(Target(env), env.body) # DecodeError) =>
          LET m == Target(env)
              to == CallbackViews(m)
              new == DecodeBody(m, env.body)
          IN /\ model'[m].value = new
             /\ model'[m].task = "running"
             /\ dispatched' = [i \in 1 .. Len(to) |->
                                 Callback(to[i], "did_set", <<new, model[m].value>>)]

\* C19 (the claim as stated): an exception raised inside a user callback
\* never aborts the inbound protocol path: the step in which the callback
\* raises leaves the protocol path as it was and gives the exception to the
\* exception policy, the callbacks of the other subscribers are scheduled
\* all the same, and the later frames are still processed
C19_CallbackNeverAborts ==
    [][/\ EventsHandledAlike
       /\ (Invokes /\ view[Last(runtime'.invoked).view].raises) =>
             /\ ProtocolPathKept
             /\ runtime'.raised = Append(runtime.raised,
                                         [item |-> Last(runtime'.invoked),
                                          policy |-> runtime.policy])
             /\ ~runtime'.exited]_vars

\* C19 (amended): an exception raised inside a user callback never reaches
\* the inbound protocol path: the step in which the callback raises leaves
\* the protocol path as it was and gives the exception to the exception
\* policy, and the callbacks of the other subscribers are scheduled all the
\* same; the later frames are still processed unless the policy is
\* terminate_on_exception, under which the process exits
C19_CallbackNeverPropagates ==
    [][/\ EventsHandledAlike
       /\ (Invokes /\ view[Last(runtime'.invoked).view].raises) =>
             /\ ProtocolPathKept
             /\ runtime'.raised = Append(runtime.raised,
                                         [item |-> Last(runtime'.invoked),
                                          policy |-> runtime.policy])
             /\ runtime'.exited = (runtime.policy = "terminate_on_exception")
       /\ (Invokes /\ ~view[Last(runtime'.invoked).view].raises) =>
             /\ ProtocolPathKept
             /\ runtime'.raised = runtime.raised
             /\ ~runtime'.exited]_vars

\* the callback of view 1 has raised for an event and, the policy keeping
\* the process alive, the replica holds the value of a later event, view 2
\* has been notified of the event for which view 1 raised, and view 1 has
\* been called again for the later event
C19_Witness ==
    /\ Len(runtime.raised) = 2
    /\ ~runtime.exited
    /\ runtime.raised[1].item.frame < runtime.raised[2].item.frame
    /\ runtime.raised[1].item.args[1] = Num42
    /\ model[view[1].model].task = "running"
    /\ model[view[1].model].value = runtime.raised[2].item.args[1]
    /\ \E i \in 1 .. Len(runtime.invoked) :
          /\ runtime.invoked[i].view = 2
          /\ runtime.invoked[i].frame = runtime.raised[1].item.frame

-----------------------------------------------------------------------------
(* The command specification: one caller thread that opens a value view    *)
(* and issues set(7) and then set(42), while the view is attached and the  *)
(* model linked                                                            *)

InitCommands ==
    /\ kind = "value"
    /\ InitBuilt
    /\ budget = [Budget(MaxActs) EXCEPT !.callcap = MaxCalls + 1]
    /\ runtime = Runtime(FALSE)
    /\ client = StartedClient
    /\ parsed = NoParse

NextCommands ==
    \/ Return
    \/ Idle /\ \E v \in Callers : Open(v)
    \/ Idle /\ budget.calls = 0 /\ \E v \in Callers : Set(v, Num7)
    \/ Idle /\ budget.calls = 1 /\ \E v \in Callers : Set(v, Num42)
    \/ Idle /\ Spawn
    \/ Idle /\ AddView
    \/ Idle /\ TransportConnected
    \/ Idle /\ \E env \in Inbound : RecvDrop(env)
    \/ Idle /\ \E env \in Inbound : ReceiveLinked(env)
    \/ Idle /\ SendMessage

SpecCommands == InitCommands /\ [][NextCommands]_vars

\* the frame of the command set(x) is the i-th frame handed to the connection
SentSet(i, x) ==
    /\ sent[i].tag = "command"
    /\ sent[i].body = ValueBody(ObjectToRecord(x))

\* C20 (the claim as stated): the commands that one caller thread issues
\* through set on one view reach the connection in the order of submission,
\* however the submissions interleave with the view becoming initialised and
\* the model becoming linked: set(42), issued after set(7), is never handed
\* to the connection before set(7)
C20_CommandsInSubmissionOrder ==
    \A i \in 1 .. Len(sent) :
       SentSet(i, Num42) => \E j \in 1 .. i - 1 : SentSet(j, Num7)

-----------------------------------------------------------------------------
(* The client: SwimClient's start and stop, its scoped form, its exception *)
(* policy and its command, with the thread that uses the client            *)

MaxClientCalls == 3   \* calls of start(), stop() and entries of the scoped form
MaxCommands == 2      \* calls of command()

\* a slip in start(): only the first start() spawns a loop thread
StartedOnce(c) ==
    IF c.loop = "none"
    THEN [c EXCEPT !.loop = "running", !.loop_thread = "alive"]
    ELSE c

\* start(): a new loop and its thread, unless the loop thread is alive
Started(c) ==
    IF c.loop_thread = "alive"
    THEN c
    ELSE [c EXCEPT !.loop = "running", !.loop_thread = "alive"]

\* the process runs: os._exit has not been called
Live == client.exit = <<>>

\* the client may be called: the thread that uses it is outside or inside
\* the scoped form and in no call
Using == Live /\ client.at \in {"out", "in"}

StopTask == Task("stop", 0, "", NoKey, <<>>, NoEnv)

\* SwimClient.start
Start ==
    /\ Using /\ client.at = "out" /\ client.calls < MaxClientCalls
    /\ client' = [Started(client) EXCEPT !.calls = @ + 1]
    /\ lastCall' = Call("start", 0, "client", Absent, <<>>)
    /\ dispatched' = <<>>
    /\ UNCHANGED <<kind, runtime, parsed, view, model, manager, nModels, mgrOf, conn, ready,
                   blocked, sent, classDict, budget>>

\* SwimClient.__enter__: start() and the body of the scoped form begins
Enter ==
    /\ Using /\ client.at = "out" /\ client.calls < MaxClientCalls
    /\ client' = [Started(client) EXCEPT !.calls = @ + 1, !.at = "in"]
    /\ lastCall' = NoCall
    /\ dispatched' = <<>>
    /\ UNCHANGED <<kind, runtime, parsed, view, model, manager, nModels, mgrOf, conn, ready,
                   blocked, sent, classDict, budget>>

\* where the thread that called stop() waits for the loop thread, and where
\* it is when stop() has returned
JoinAt(at) == IF at = "out" THEN "join" ELSE "leaving"
AfterJoin(at) == IF at = "join" THEN "out" ELSE "left"

\* stop(): the task that stops the loop is scheduled and the caller joins
\* the loop thread; without a live loop thread there is nothing to stop
Stopped(c, q) ==
    IF c.loop_thread = "alive"
    THEN [client |-> [c EXCEPT !.at = JoinAt(c.at)], ready |-> Schedule(q, StopTask),
          returns |-> FALSE]
    ELSE [client |-> [c EXCEPT !.at = IF c.at = "in" THEN "left" ELSE c.at], ready |-> q,
          returns |-> TRUE]

\* SwimClient.stop on a client that was started
Stop ==
    /\ Using /\ client.at = "out" /\ client.calls < MaxClientCalls
    /\ client.loop # "none"
    /\ LET s == Stopped(client, ready)
       IN /\ client' = [s.client EXCEPT !.calls = @ + 1]
          /\ ready' = s.ready
          /\ lastCall' = IF s.returns THEN Call("stop", 0, "client", Absent, <<>>) ELSE NoCall
    /\ dispatched' = <<>>
    /\ UNCHANGED <<kind, runtime, parsed, view, model, manager, nModels, mgrOf, conn, blocked, sent,
                   classDict, budget>>

\* the task that stops the loop: the outstanding tasks are cancelled and the
\* loop thread ends.  The work items of the worker pool are not tasks of the
\* loop
StopEventLoop ==
    /\ Live /\ client.loop_thread = "alive"
    /\ Running("stop")
    /\ ready' = <<>>
    /\ blocked' = <<>>
    /\ client' = [client EXCEPT !.loop_thread = "ended"]
    /\ lastCall' = NoCall
    /\ dispatched' = <<>>
    /\ UNCHANGED <<kind, runtime, parsed, view, model, manager, nModels, mgrOf, conn, sent, classDict,
                   budget>>

\* stop() after the join: the loop is closed and stop() returns the client
Joined ==
    /\ Live /\ client.at \in {"join", "leaving"}
    /\ client.loop_thread = "ended"
    /\ client' = [client EXCEPT !.loop = "closed", !.at = AfterJoin(@)]
    /\ lastCall' = Call("stop", 0, "client", Absent, <<>>)
    /\ dispatched' = <<>>
    /\ UNCHANGED <<kind, runtime, parsed, view, model, manager, nModels, mgrOf, conn, ready, blocked,
                   sent, classDict, budget>>

ExceptionTask(handler) == Task("on_exception", 0, handler, NoKey, <<>>, NoEnv)

\* a slip in the exception policy: the callback of execute_on_exception is
\* scheduled before terminate_on_exception is looked at
HandleExceptionCallbackFirst(c) ==
    LET shown == [c EXCEPT !.printed = Append(@, "exception"), !.print_tb = @ + 1]
    IN IF c.execute_on_exception # "none"
       THEN [client |-> [shown EXCEPT !.executor = @ \/ c.execute_on_exception = "function"],
             tasks |-> <<ExceptionTask(c.execute_on_exception)>>]
       ELSE IF c.terminate_on_exception
       THEN [client |-> [shown EXCEPT !.exit = Append(@, 1)], tasks |-> <<>>]
       ELSE [client |-> shown, tasks |-> <<>>]

\* the exception policy: the exception is printed with its traceback; then
\* the process exits with code 1 under terminate_on_exception, or else the
\* callback of execute_on_exception is scheduled, a plain function through
\* the executor
HandleException(c) ==
    LET shown == [c EXCEPT !.printed = Append(@, "exception"), !.print_tb = @ + 1]
    IN IF c.terminate_on_exception
       THEN [client |-> [shown EXCEPT !.exit = Append(@, 1)], tasks |-> <<>>]
       ELSE IF c.execute_on_exception # "none"
       THEN [client |-> [shown EXCEPT !.executor = @ \/ c.execute_on_exception = "function"],
             tasks |-> <<ExceptionTask(c.execute_on_exception)>>]
       ELSE [client |-> shown, tasks |-> <<>>]

\* a slip in __exit__: stop() is left out when the body raised
ExitedUnstopped(raises, c, q) ==
    IF raises
    THEN [client |-> [HandleException(c).client EXCEPT !.at = "left"],
          ready |-> q \o HandleException(c).tasks, returns |-> FALSE]
    ELSE Stopped(c, q)

\* SwimClient.__exit__: an exception of the body goes to the exception
\* policy, and then stop()
Exited(raises, c, q) ==
    IF raises
    THEN LET h == HandleException(c)
         IN IF h.client.exit # <<>>
            THEN [client |-> h.client, ready |-> q, returns |-> FALSE]
            ELSE Stopped(h.client, q \o h.tasks)
    ELSE Stopped(c, q)

\* the body of the scoped form ends, normally or with an exception
Exit(raises) ==
    /\ Using /\ client.at = "in"
    /\ LET e == Exited(raises, [client EXCEPT !.raised = raises], ready)
       IN /\ client' = e.client
          /\ ready' = e.ready
    /\ lastCall' = NoCall
    /\ dispatched' = <<>>
    /\ UNCHANGED <<kind, runtime, parsed, view, model, manager, nModels, mgrOf, conn, blocked, sent,
                   classDict, budget>>

\* the work item of the callback of execute_on_exception
ExceptionItem == [NoItem EXCEPT !.op = "on_exception"]

\* the first step of the task of execute_on_exception: a coroutine function
\* runs on the loop, a plain function is handed to the worker pool
ExecuteOnException ==
    /\ Live /\ client.loop_thread = "alive"
    /\ Running("on_exception")
    /\ ready' = Rest
    /\ IF Cur.op = "function"
       THEN /\ runtime' = [runtime EXCEPT !.pool = Append(@, ExceptionItem)]
            /\ UNCHANGED client
       ELSE /\ client' = [client EXCEPT !.printed = Append(@, "callback")]
            /\ UNCHANGED runtime
    /\ lastCall' = NoCall
    /\ dispatched' = <<>>
    /\ UNCHANGED <<kind, parsed, view, model, manager, nModels, mgrOf, conn, blocked, sent, classDict,
                   budget>>

\* a worker calls the plain function of execute_on_exception
WorkerExecutes(w) ==
    /\ Live
    /\ runtime.workers[w] = ExceptionItem
    /\ runtime' = [runtime EXCEPT !.workers[w] = NoItem]
    /\ client' = [client EXCEPT !.printed = Append(@, "callback")]
    /\ lastCall' = NoCall
    /\ dispatched' = <<>>
    /\ UNCHANGED <<kind, parsed, view, model, manager, nModels, mgrOf, conn, ready, blocked, sent,
                   classDict, budget>>

\* the envelope of command(host, node, lane, value)
CommandEnvelope(node, lane, x) ==
    Envelope("command", node, lane, ValueBody(ObjectToRecord(x)))

\* SwimClient.command: the task that sends the message is scheduled and the
\* call returns
Command(node, lane, x) ==
    /\ Using /\ client.loop_thread = "alive"
    /\ client.commands < MaxCommands
    /\ client' = [client EXCEPT !.commands = @ + 1]
    /\ ready' = Schedule(ready, Task("command", 0, "command", NoKey, <<x>>,
                                     CommandEnvelope(node, lane, x)))
    /\ lastCall' = Call("command", 0, "ok", Absent, <<>>)
    /\ dispatched' = <<>>
    /\ UNCHANGED <<kind, runtime, parsed, view, model, manager, nModels, mgrOf, conn, blocked, sent,
                   classDict, budget>>

\* the frames after the command's task has sent its message
SentCommand(env) == SendFrame(env, NoModel)

\* the task of a command: get the host's connection, opening the transport
\* when the host has none, and send the message
SendCommand ==
    /\ Live /\ client.loop_thread = "alive"
    /\ Running("command")
    /\ IF conn.status = "open"
       THEN /\ sent' = SentCommand(Cur.env)
            /\ ready' = Rest
            /\ UNCHANGED <<conn, blocked, client>>
       ELSE /\ conn' = [conn EXCEPT !.status = "connecting"]
            /\ client' = [client EXCEPT !.connects = IF conn.status = "closed" THEN @ + 1
                                                     ELSE @]
            /\ blocked' = Append(blocked, [Cur EXCEPT !.pc = "wait_connect"])
            /\ ready' = Rest
            /\ UNCHANGED sent
    /\ lastCall' = NoCall
    /\ dispatched' = <<>>
    /\ UNCHANGED <<kind, runtime, parsed, view, model, manager, nModels, mgrOf, classDict, budget>>

-----------------------------------------------------------------------------
(* The client specification: one thread that starts and stops a client,    *)
(* uses its scoped form and sends commands, under every exception policy   *)

InitClient ==
    /\ kind = "value"
    /\ InitBuilt
    /\ budget = Budget(MaxActs)
    /\ runtime = Runtime(FALSE)
    /\ \E terminate \in BOOLEAN, execute \in Handlers :
          client = NewClient(terminate, execute)
    /\ parsed = NoParse

NextClient ==
    \/ Return
    \/ Idle /\ Start
    \/ Idle /\ Stop
    \/ Idle /\ Enter
    \/ Idle /\ \E raises \in BOOLEAN : Exit(raises)
    \/ Idle /\ Joined
    \/ Idle /\ Command("moo", "cow", TextV)
    \/ Idle /\ Live /\ client.loop_thread = "alive" /\ Spawn
    \/ Idle /\ StopEventLoop
    \/ Idle /\ ExecuteOnException
    \/ Idle /\ Live /\ \E w \in Workers : WorkerTakes(w)
    \/ Idle /\ \E w \in Workers : WorkerExecutes(w)
    \/ Idle /\ SendCommand
    \/ Idle /\ TransportConnected

SpecClient == InitClient /\ [][NextClient]_vars

-----------------------------------------------------------------------------
(* The claims about the client (client specification) *)

\* a call of op returns the client in this step
Returns(op) == lastCall = NoCall /\ lastCall'.op = op /\ lastCall'.status = "client"

\* the step changes nothing of the client but the count of its calls, and
\* nothing of the loop's queues
ChangesNothing ==
    /\ client' = [client EXCEPT !.calls = @ + 1]
    /\ ready' = ready /\ blocked' = blocked

\* C21: when start() returns, the loop is not closed and the loop thread is
\* alive; when stop() returns, the loop is closed and the loop thread is not
\* alive; both return the client; a start() of a client whose loop thread is
\* alive and a stop() of a client whose loop is closed change nothing
C21_StartStopIdempotent ==
    [][/\ lastCall = NoCall /\ lastCall'.op \in {"start", "stop"} =>
             lastCall'.status = "client"
       /\ Returns("start") =>
             /\ client'.loop = "running" /\ client'.loop_thread = "alive"
             /\ client.loop_thread = "alive" => ChangesNothing
       /\ Returns("stop") =>
             /\ client'.loop = "closed" /\ client'.loop_thread # "alive"
             /\ client.loop = "closed" => ChangesNothing]_vars

\* a stop() has returned after three calls of start() and stop(): one of
\* them was a second start() or a second stop()
C21_Witness ==
    /\ lastCall.op = "stop" /\ client.at = "out"
    /\ client.calls = 3 /\ client.loop = "closed"

\* the client has neither terminate_on_exception nor execute_on_exception
NoPolicy == ~client.terminate_on_exception /\ client.execute_on_exception = "none"

\* C22: once the scoped form has been left, the loop is closed and the loop
\* thread is not alive, whether the body raised or not; without
\* terminate_on_exception and execute_on_exception an exception of the body
\* has then been printed once, with one traceback, and os._exit has not been
\* called, and nothing is printed when the body does not raise
C22_ScopedFormStops ==
    /\ client.at = "left" => client.loop = "closed" /\ client.loop_thread # "alive"
    /\ NoPolicy /\ client.at \in {"leaving", "left"} =>
          /\ client.exit = <<>>
          /\ client.printed = (IF client.raised THEN <<"exception">> ELSE <<>>)
          /\ client.print_tb = (IF client.raised THEN 1 ELSE 0)

\* the scoped form of a client without a policy has been left after its body
\* raised
C22_Witness ==
    /\ NoPolicy /\ client.at = "left" /\ client.raised
    /\ client.printed = <<"exception">> /\ client.loop = "closed"

\* the callback of execute_on_exception is scheduled, queued or running
CallbackPending ==
    \/ \E i \in 1 .. Len(ready) : ready[i].kind = "on_exception"
    \/ \E i \in 1 .. Len(runtime.pool) : runtime.pool[i] = ExceptionItem
    \/ \E w \in Workers : runtime.workers[w] = ExceptionItem

\* the number of times the callback of execute_on_exception has run
CallbackRuns == Len(SelectSeq(client.printed, LAMBDA p : p = "callback"))

\* C23: under terminate_on_exception an exception of the body is printed
\* once, with one traceback, and os._exit(1) is called once; the callback of
\* execute_on_exception, when there is one as well, is neither scheduled nor
\* run
C23_TerminateTakesPrecedence ==
    client.terminate_on_exception =>
       /\ client.raised =>
             /\ client.printed = <<"exception">> /\ client.print_tb = 1
             /\ client.exit = <<1>>
       /\ ~client.raised => client.exit = <<>> /\ client.printed = <<>>
       /\ ~CallbackPending /\ CallbackRuns = 0 /\ ~client.executor

\* the body raised in a client with both terminate_on_exception and
\* execute_on_exception: the process has exited
C23_Witness ==
    /\ client.terminate_on_exception /\ client.execute_on_exception # "none"
    /\ client.raised /\ client.exit = <<1>> /\ client.print_tb = 1

\* C24 (the claim as stated): under execute_on_exception without
\* terminate_on_exception an exception of the body is printed first and the
\* callback, a coroutine function or a plain function, runs once after that
\* and has run by the time the scoped form's stop() has returned; os._exit is
\* not called
C24_CallbackRunsBeforeStopped ==
    ~client.terminate_on_exception /\ client.execute_on_exception # "none"
        /\ client.raised =>
       /\ client.exit = <<>>
       /\ client.print_tb = 1
       /\ client.printed \in {<<"exception">>, <<"exception", "callback">>}
       /\ client.at = "left" => client.printed = <<"exception", "callback">>

\* the frame of the command of the client specification
CommandFrame == Frame(CommandEnvelope("moo", "cow", TextV), NoModel)

\* C25 (the claim as stated): the commands of a client open one transport to
\* the host; each command sends its envelope once, with the node, the lane
\* and the value, and waits for no linked; when stop() has returned, the
\* frame of every command has been handed to the connection
C25_CommandSentBeforeStopped ==
    /\ client.connects <= 1
    /\ Len(sent) <= client.commands
    /\ \A i \in 1 .. Len(sent) : sent[i] = CommandFrame
    /\ client.loop = "closed" => Len(sent) = client.commands

-----------------------------------------------------------------------------
(* The parser specification: a Recon string is given to parse_block_string *)

MaxLen == 3     \* length of the Recon strings, the two keywords apart

ReconChars == {"a", "1", "@", "(", ")", " "}

Strings(n) == UNION {[1 .. k -> ReconChars] : k \in 0 .. n}

\* the Recon strings parsed: every string of the characters up to the
\* length bound, and the identifiers true and false
ReconInputs ==
    Strings(MaxLen) \cup {<<"t", "r", "u", "e">>, <<"f", "a", "l", "s", "e">>}

\* the outcome of a call: the value returned, or the exception raised and
\* the index of the message at which it was raised
Outcome(r) ==
    [status |-> IF r.err = NoErr THEN "returned" ELSE "raised",
     out |-> r.out, error |-> r.err, index |-> r.msg.index]

InitParse ==
    /\ kind = "value"
    /\ InitBuilt
    /\ budget = Budget(MaxActs)
    /\ runtime = Runtime(FALSE)
    /\ client = StartedClient
    /\ \E s \in ReconInputs : parsed = [recon_string |-> s, result |-> NotParsed]

\* parse_block_string(recon_string) is called and returns or raises
Parse ==
    /\ parsed.result = NotParsed
    /\ parsed' = [parsed EXCEPT !.result = Outcome(ParseBlockString(parsed.recon_string))]
    /\ UNCHANGED <<kind, runtime, client, view, model, manager, nModels, mgrOf, conn, ready,
                   blocked, sent, dispatched, lastCall, classDict, budget>>

NextParse == Parse

SpecParse == InitParse /\ [][NextParse]_vars

-----------------------------------------------------------------------------
(* The claims about the parser (parser specification) *)

\* the string is one identifier
IsIdent(s) ==
    /\ s # <<>> /\ IsIdentStartChar(s[1])
    /\ \A i \in 1 .. Len(s) : IsIdentChar(s[i])

\* the value that the identifier stands for
IdentValue(s) ==
    IF s = <<"t", "r", "u", "e">> THEN Bool(TRUE)
    ELSE IF s = <<"f", "a", "l", "s", "e">> THEN Bool(FALSE)
    ELSE TextFrom(Str(s))

Parsed == parsed.result.status # "none"

\* C28 (the claim as stated): parsing a string that is one bare identifier
\* returns a value, Bool(true) for true, Bool(false) for false and the Text of
\* the name for every other identifier
C28_IdentParsesToValue ==
    Parsed /\ IsIdent(parsed.recon_string) =>
       /\ parsed.result.status = "returned"
       /\ parsed.result.out.type = IdentValue(parsed.recon_string).type
       /\ parsed.result.out = IdentValue(parsed.recon_string)

\* the string is malformed: empty once stripped, ended by the @ of an
\* attribute, or with a parenthesis that is never closed
Count(s, c) == Cardinality({i \in 1 .. Len(s) : s[i] = c})
Malformed(s) ==
    \/ RStrip(LStrip(s)) = <<>>
    \/ RStrip(s)[Len(RStrip(s))] = "@"
    \/ Count(s, "(") > Count(s, ")")

\* C29 (the claim as stated): for a malformed string the parser ends with a
\* Parse error that carries a position and a reason; it raises nothing else
\* and returns nothing
C29_MalformedRaisesParseError ==
    Parsed /\ Malformed(parsed.recon_string) =>
       /\ parsed.result.status = "raised"
       /\ parsed.result.error = "Parse"

-----------------------------------------------------------------------------
(* Calls of a view's methods from the loop thread: a coroutine callback,   *)
(* which the loop runs, calls get, set, put or remove of its view          *)

\* the methods of a view of each kind that can block their caller
BlockingOps == [value |-> {"get", "set"}, map |-> {"get", "put", "remove"},
                event |-> {}]

\* the task that get(wait_sync=True), set, put and remove schedule
CallTask(v, op) ==
    CASE op = "get" -> Task("get", v, "", NoKey, <<>>, NoEnv)
      [] op = "set" -> Task("send", v, "set", NoKey, <<Num7>>, NoEnv)
      [] op = "put" -> Task("send", v, "put", NoKey, <<TextK, TextV>>, NoEnv)
      [] OTHER -> Task("send", v, "remove", NoKey, <<TextK>>, NoEnv)

\* task.result() on the loop thread: the thread waits for a future that only
\* the loop can complete
ResultOnLoop(c) == [c EXCEPT !.loop_thread = "blocked"]

\* the loop thread runs the loop
LoopRuns == client.loop_thread = "alive"

\* the first step of the task of a coroutine callback that calls op of its
\* own view, an open view: get(wait_sync=True) and a blocking set, put or
\* remove schedule their task and call task.result(); set, put and remove without
\* blocking only schedule the task; get() without wait_sync returns the replica
CallbackCalls(op, blocking) ==
    /\ Running("callback") /\ ~view[Cur.view].sync
    /\ op \in BlockingOps[kind]
    /\ view[Cur.view].is_open
    /\ budget.calls < budget.callcap
    /\ ready' = IF op # "get" \/ blocking THEN Schedule(Rest, CallTask(Cur.view, op))
                ELSE Rest
    /\ client' = IF blocking THEN ResultOnLoop(client) ELSE client
    /\ runtime' = [runtime EXCEPT !.invoked = Append(@, Item(Cur))]
    /\ budget' = [budget EXCEPT !.calls = @ + 1]
    /\ lastCall' = NoCall
    /\ dispatched' = <<>>
    /\ UNCHANGED <<kind, parsed, view, model, manager, nModels, mgrOf, conn, blocked, sent,
                   classDict>>

-----------------------------------------------------------------------------
(* The loop-thread specification: a value or map view whose coroutine      *)
(* callback calls the view's methods                                       *)

InitLoopCalls ==
    /\ kind \in {"value", "map"}
    /\ InitBuilt
    /\ budget = Budget(MaxActs)
    /\ runtime = Runtime(TRUE)
    /\ client = StartedClient
    /\ parsed = NoParse

NextLoopCalls ==
    \/ \E v \in Views : Open(v)
    \/ LoopRuns /\ Spawn
    \/ LoopRuns /\ AddView
    \/ LoopRuns /\ TransportConnected
    \/ LoopRuns /\ \E env \in Inbound : RecvDrop(env)
    \/ LoopRuns /\ \E env \in Inbound : ReceiveLinked(env)
    \/ LoopRuns /\ \E env \in Inbound : ReceiveEventValue(env)
    \/ LoopRuns /\ \E env \in Inbound : ReceiveEventMap(env)
    \/ LoopRuns /\ RunCallback
    \/ LoopRuns /\ \E op \in {"get", "set", "put", "remove"}, blocking \in BOOLEAN :
                      CallbackCalls(op, blocking)
    \/ LoopRuns /\ SendMessage

SpecLoopCalls == InitLoopCalls /\ [][NextLoopCalls]_vars

\* C30 (the claim as stated): a blocking call made on the loop thread, from
\* a coroutine callback, is refused; the loop thread is never left waiting
\* for a future that only the loop can complete
C30_LoopThreadNeverBlocked ==
    client.loop_thread # "blocked"

-----------------------------------------------------------------------------
(* The builder specification: two views of one lane, the first configured  *)
(* further by its user, both opened and closed                             *)

InitConfig ==
    /\ kind = "value"
    /\ view = [v \in Views |-> BuiltView("b", FALSE, FALSE)]
    /\ InitCommon
    /\ classDict = [v \in Views |-> {}]
    /\ budget = Budget(MaxActs)
    /\ runtime = Runtime(FALSE)
    /\ client = StartedClient
    /\ parsed = NoParse

NextConfig ==
    \/ Return
    \/ Idle /\ \E v \in Callers, h \in HostInputs : SetHostUri(v, h)
    \/ Idle /\ \E v \in Callers, n \in NodeInputs : SetNodeUri(v, n)
    \/ Idle /\ \E v \in Callers, l \in LaneInputs : SetLaneUri(v, l)
    \/ Idle /\ \E v \in Callers, b \in BOOLEAN : SetStrict(v, b)
    \/ Idle /\ \E v \in Callers, c \in ClassInputs : RegisterClass(v, c)
    \/ Idle /\ \E v \in Callers : RegisterClasses(v, ClassListInput)
    \/ Idle /\ \E v \in Callers, c \in ClassInputs : DeregisterClass(v, c)
    \/ Idle /\ \E v \in Callers : DeregisterClasses(v, ClassListInput)
    \/ Idle /\ \E v \in Callers : DeregisterAllClasses(v)
    \/ Idle /\ \E v \in Views : Open(v)
    \/ Idle /\ \E v \in Views : Close(v)
    \/ Idle /\ Spawn
    \/ Idle /\ AddView
    \/ Idle /\ AddViewFails
    \/ Idle /\ TransportConnected
    \/ Idle /\ RemoveView
    \/ Idle /\ CloseModel

SpecConfig == InitConfig /\ [][NextConfig]_vars

-----------------------------------------------------------------------------
(* The claims about configuration (builder specification) *)

UriOps == {"set_host_uri", "set_node_uri", "set_lane_uri"}
ClassOps == {"register_class", "register_classes", "deregister_class",
             "deregister_classes", "deregister_all_classes"}

\* C2: set_host_uri, set_node_uri and set_lane_uri on a view that is open
\* raise the already-open error and leave the view, its three URIs included,
\* as it was; on a view that is not open set_node_uri and set_lane_uri
\* assign their argument, and set_host_uri assigns the host in its WARP
\* form (ws for ws and http) and rejects any other scheme, and no other
\* field of the view changes
C2_UriSettersBeforeOpen ==
    [][lastCall'.op \in UriOps =>
          LET v == lastCall'.view
              arg == lastCall'.val.s
          IN IF view[v].is_open
             THEN lastCall'.status = "AlreadyOpen" /\ view' = view
             ELSE CASE lastCall'.op = "set_node_uri" ->
                         /\ lastCall'.status = "ok"
                         /\ view' = [view EXCEPT ![v].node_uri = arg]
                    [] lastCall'.op = "set_lane_uri" ->
                         /\ lastCall'.status = "ok"
                         /\ view' = [view EXCEPT ![v].lane_uri = arg]
                    [] OTHER ->
                         IF arg \in {"ws://h", "http://h"}
                         THEN /\ lastCall'.status = "ok"
                              /\ view' = [view EXCEPT ![v].host_uri = "ws://h"]
                         ELSE lastCall'.status = "Rejected" /\ view' = view]_vars

\* C2 witness: the lane was set on the unopened view and a later
\* set_lane_uri on the open view failed and left it
C2_Witness ==
    /\ lastCall.op = "set_lane_uri"
    /\ lastCall.status = "AlreadyOpen"
    /\ lastCall.val = Uri("b")
    /\ view[lastCall.view].lane_uri = "x"

ClassesAfter(op, arg, before) ==
    CASE op = "register_class" -> before \cup {arg}
      [] op = "register_classes" -> before \cup ClassInputs
      [] op = "deregister_class" -> before \ {arg}
      [] op = "deregister_classes" -> before \ ClassInputs
      [] OTHER -> {}

Managed == {r \in Routes : mgrOf[r] # NoModel}

\* the transport is opened, or closed, in this step
TransportOpens == conn.status = "closed" /\ conn'.status # "closed"
TransportCloses == conn.status # "closed" /\ conn'.status = "closed"

\* C26: however open() and close() of the views of one host's routes
\* interleave, the connection's downlink count is the number of managers of
\* the host; the transport is opened only while the count is zero, it is
\* open whenever the count leaves zero, the count moves by one, and the
\* transport is closed in the very steps in which the count returns to zero
C26_CountIsManagers ==
    /\ conn.count = Cardinality(Managed)
    /\ [][/\ conn'.count = Cardinality(Managed')
          /\ conn'.count \in {conn.count - 1, conn.count, conn.count + 1}
          /\ TransportOpens => conn.count = 0 /\ conn'.count = 0
          /\ conn.count = 0 /\ conn'.count = 1 => conn.status = "open" /\ conn'.status = "open"
          /\ TransportCloses <=> conn.count = 1 /\ conn'.count = 0]_vars

\* two routes of the host had a manager each, both have been closed and the
\* transport is closed again
C26_Witness ==
    /\ nModels = 2 /\ model[1].lane_uri # model[2].lane_uri
    /\ \A m \in ModelIds : model[m].downlink_manager = m
    /\ conn.count = 0 /\ conn.status = "closed"

\* the loop has nothing left to run and no connect is pending
Quiescent == ready = <<>> /\ conn.status # "connecting"

\* C27 (the claim as stated, at the end of the run): once every view has
\* been closed and the loop has run every task that open() and close()
\* scheduled, no model's reader task is running and no connection reference
\* is held, also when close() was called before the task of open() had
\* attached the view
C27_LastCloseClosesModel ==
    Quiescent /\ (\A v \in Views : ~view[v].is_open) =>
       /\ \A m \in ModelIds : model[m].task # "running"
       /\ conn.count = 0

-----------------------------------------------------------------------------
(* The frames specification: two views of one lane are opened and the peer *)
(* sends envelopes of every tag, in any order; no view is closed or called *)

\* the envelopes without a branch in receive_message, on a lane of the views
InboundOther ==
    {Envelope(tag, "a", view[v].lane_uri, NoBody) : v \in Views, tag \in OtherTags}

InitFrames ==
    /\ kind \in {"value", "map", "event"}
    /\ InitBuilt
    /\ budget = Budget(MaxActs + 1)
    /\ runtime = Runtime(FALSE)
    /\ client = StartedClient
    /\ parsed = NoParse

NextFrames ==
    \/ \E v \in Views : Open(v)
    \/ Spawn
    \/ AddView
    \/ TransportConnected
    \/ \E env \in Inbound : RecvDrop(env)
    \/ \E env \in Inbound : ReceiveLinked(env)
    \/ \E env \in Inbound : ReceiveSynced(env)
    \/ \E env \in Inbound : ReceiveUnlinked(env)
    \/ \E env \in Inbound : ReceiveEventValue(env)
    \/ \E env \in Inbound : ReceiveEventEvent(env)
    \/ \E env \in Inbound : ReceiveEventMap(env)
    \/ \E env \in InboundOther : ReceiveOther(env)

SpecFrames == InitFrames /\ [][NextFrames]_vars

\* C31: an envelope whose tag is none of linked, synced, event, unlinked
\* leaves the model that receives it as it was: its linked and synced
\* signals, its replica (value and map), its reader and its error are
\* unchanged, no task is woken or scheduled and no callback is dispatched
C31_UnknownTagIgnored ==
    [][\A env \in InboundOther :
          ReceiveOther(env) =>
             LET m == Target(env)
             IN /\ model'[m].linked = model[m].linked
                /\ model'[m].synced = model[m].synced
                /\ model'[m].value = model[m].value
                /\ model'[m].map = model[m].map
                /\ model'[m].task = model[m].task
                /\ model'[m].error = model[m].error
                /\ \A n \in ModelIds \ {m} : model'[n] = model[n]
                /\ ready' = ready
                /\ blocked' = blocked
                /\ dispatched' = <<>>]_vars

\* a model with a subscriber that has a callback has received linked and an
\* envelope with a tag of neither kind: it is linked, its reader runs and no
\* error is recorded
C31_Witness ==
    \E m \in ModelIds :
       /\ model[m].ignored = 1
       /\ model[m].linked
       /\ model[m].task = "running"
       /\ model[m].error = NoError
       /\ \E i \in 1 .. Len(manager[m].views) : view[manager[m].views[i]].callback

\* C32 (the claim as stated): in every state a value or map model has its
\* synced signal set only if its linked signal is set, whatever the order
\* in which the peer sends linked and synced
C32_SyncedOnlyIfLinked ==
    \A m \in ModelIds :
       (model[m].kind \in {"value", "map"} /\ model[m].synced) => model[m].linked

\* the callbacks of dispatched that go to view v
DispatchedTo(v) == SelectSeq(dispatched, LAMBDA cb : cb.view = v)

-----------------------------------------------------------------------------
(* The attribute specification: AttrParser.parse is given a Recon string   *)

\* the strings given to AttrParser: every string of the characters up to
\* the length bound, and two attributes with parentheses
AttrInputs ==
    Strings(MaxLen) \cup {<<"@", "a", "(", ")">>, <<"@", "a", "(", "a", ")">>}

InitAttr ==
    /\ kind = "value"
    /\ InitBuilt
    /\ budget = Budget(MaxActs)
    /\ runtime = Runtime(FALSE)
    /\ client = StartedClient
    /\ \E s \in AttrInputs : parsed = [recon_string |-> s, result |-> NotParsed]

\* AttrParser.parse(InputMessage(recon_string), parser) is called and
\* returns or raises
ParseAttr ==
    /\ parsed.result = NotParsed
    /\ parsed' = [parsed EXCEPT
                    !.result = Outcome(AttrParser(InputMessage(parsed.recon_string)))]
    /\ UNCHANGED <<kind, runtime, client, view, model, manager, nModels, mgrOf, conn, ready,
                   blocked, sent, dispatched, lastCall, classDict, budget>>

NextAttr == ParseAttr

SpecAttr == InitAttr /\ [][NextAttr]_vars

\* the string is @name, @name() or @name(block) with an identifier as block;
\* k is the index of the last character of the name
AttrNameEnds(s, k) ==
    /\ 2 <= k /\ k <= Len(s)
    /\ s[1] = "@"
    /\ IsIdent(SubSeq(s, 2, k))
IsAttrBare(s, k) == AttrNameEnds(s, k) /\ k = Len(s)
IsAttrEmpty(s, k) == AttrNameEnds(s, k) /\ SubSeq(s, k + 1, Len(s)) = <<"(", ")">>
IsAttrBlock(s, k) ==
    /\ AttrNameEnds(s, k)
    /\ Len(s) >= k + 3
    /\ s[k + 1] = "(" /\ s[Len(s)] = ")"
    /\ IsIdent(SubSeq(s, k + 2, Len(s) - 1))

\* C34 (the claim as stated): for @name and @name() AttrParser returns the
\* attribute with the key name and the value Extant, for @name(block) the
\* attribute whose value is the parsed block, and in each case the position
\* of the input afterwards is just past the attribute, the closing
\* parenthesis included
C34_AttrParserYieldsAttr ==
    \A k \in 2 .. Len(parsed.recon_string) :
       LET s == parsed.recon_string
           name == TextFrom(Str(SubSeq(s, 2, k)))
           res == parsed.result
       IN /\ (Parsed /\ (IsAttrBare(s, k) \/ IsAttrEmpty(s, k))) =>
                /\ res.status = "returned"
                /\ res.out = AttrOf(name, Extant)
                /\ res.index = Len(s)
          /\ (Parsed /\ IsAttrBlock(s, k)) =>
                /\ res.status = "returned"
                /\ res.out = AttrOf(name, IdentValue(SubSeq(s, k + 2, Len(s) - 1)))
                /\ res.index = Len(s)

\* C35 (the claim as stated): an assignment strict := b to a view is
\* followed by view.strict = b, the getter reading the manager's flag when
\* the view is attached to a manager and the view's private flag otherwise:
\* attached, the manager's flag becomes b; unattached, the private flag does
C35_StrictReadsBack ==
    [][\A v \in Views, b \in BOOLEAN :
          SetStrict(v, b) =>
             /\ ViewStrict(v)' = b
             /\ IF view[v].downlink_manager # NoModel
                THEN manager'[view[v].downlink_manager].strict = b
                ELSE view'[v].strict = b]_vars

\* what a call handed to its caller: a value, one (key, value) tuple or a
\* collection of entries
Answer(c) == [status |-> c.status, val |-> c.val, coll |-> c.coll]

\* the answer that the claim expects of a get(key) on the replica map mp:
\* the stored value for a present key, Absent for a missing one, every
\* entry for the key None
StoredAnswer(mp, key) ==
    IF key = NoKey THEN [status |-> "values", val |-> Absent, coll |-> mp]
    ELSE IF HasKey(mp, key) THEN [status |-> "value", val |-> Entry(mp, key).val, coll |-> <<>>]
    ELSE [status |-> "value", val |-> Absent, coll |-> <<>>]

\* C36 (the claim as stated): on an open map view whose model is synced, a
\* get(key) without waiting and a get(key, wait_sync=True) hand the caller
\* the same answer for the same replica, each the answer the other path
\* gives in that state: the stored value for a present key, Absent for a
\* missing one and the collection of the entries for the key None
C36_GetPathsAgree ==
    [][/\ \A v \in Callers, key \in UserKeys :
             (/\ GetNow(v, key) /\ kind = "map"
              /\ view[v].is_open /\ view[v].model # NoModel
              /\ model[view[v].model].synced) =>
                /\ Answer(lastCall') = Answer(GetValueResult(v, view[v].model, key))
                /\ Answer(lastCall') = StoredAnswer(model[view[v].model].map, key)
       /\ (/\ GetValue /\ kind = "map" /\ lastCall'.op = "get_sync"
           /\ view[Cur.view].is_open) =>
             /\ Answer(lastCall') = Answer(ViewMap(Cur.view, Cur.key))
             /\ Answer(lastCall') = StoredAnswer(model[view[Cur.view].model].map, Cur.key)]_vars

====
